---- MODULE Spec2Model ----
(***************************************************************************)
(* Flash-sale inventory scenario                                           *)
(* (business_logic/ecommerce_inventory_overselling_scenario.py).           *)
(*                                                                         *)
(* One InventoryManager is shared by the customer threads that             *)
(* run_flash_sale_simulation submits to its thread pool.  Every access to  *)
(* shared state (the stock of a product, the order list, the lock) is one  *)
(* step; the statement `product.inventory_count -= quantity` is a read     *)
(* followed by a write, because Python does not make it atomic.            *)
(*                                                                         *)
(* The scripts under concurrency/ (race_condition_scenario.py,             *)
(* threading_deadlock_scenario.py, enhanced_ninth_scenario.py) are         *)
(* programs of their own; each has its variables, its actions and its      *)
(* specification, and leaves the state of the others unchanged.            *)
(***************************************************************************)
EXTENDS Integers, Sequences, FiniteSets

\* ------------------------------------------------------------------ bounds
\* number of customers of one run (num_customers)
NumCustomers == 3
\* largest quantity one customer asks for
MaxQuantity == 2
\* number of whole seconds the clock may advance during the calls
MaxClock == 1
\* largest user number when several calls may come from one user
MaxUser == 1

\* ------------------------------------------------------------- seed data
LaptopStock == 5
PhoneStock == 3
TabletStock == 2
HeadphonesStock == 10

ProductIds == {"laptop_001", "phone_002", "tablet_003", "headphones_004"}

\* InventoryManager.__init__: product id -> inventory_count
InitialProducts ==
    [p \in ProductIds |->
        CASE p = "laptop_001" -> LaptopStock
          [] p = "phone_002" -> PhoneStock
          [] p = "tablet_003" -> TabletStock
          [] p = "headphones_004" -> HeadphonesStock]

\* the products the modelled runs target (main's safe run and its extreme run)
SaleProducts == {"phone_002", "tablet_003"}

\* self.products.items(): the products in insertion order
ProductOrder == <<"laptop_001", "phone_002", "tablet_003", "headphones_004">>

\* customer_id in range(num_customers)
Customers == 0 .. (NumCustomers - 1)

\* the quantities a customer may ask for
Quantities == 1 .. MaxQuantity

\* value of the lock when no thread holds it
NoThread == -1

VARIABLES
    products,           \* self.products: product id -> inventory_count
    orders,             \* self.orders
    lock,               \* self.lock: the customer holding it, or NoThread
    product_id,         \* run_flash_sale_simulation's product_id
    use_safe,           \* use_safe_reservation of each customer's create_order
    user_id,            \* user_id of each customer's create_order
    clock,              \* int(time.time()): the current whole second
    pc,                 \* position of each customer thread
    quantity,           \* quantity chosen by each customer
    order_len,          \* len(self.orders) read for the order_id
    order_time,         \* int(time.time()) read for the order_id
    current_inventory,  \* local current_inventory of reserve_inventory_*
    loaded,             \* value read by `inventory_count -= quantity`
    reserved,           \* outcome of the reservation: "none", "true", "false", "raised"
    observed,           \* inventory_count read by the overselling test (line 71)
    stored,             \* history: value written by the customer's decrement
    wrote,              \* history: the customer has written the stock
    lock_order,         \* history: customers in the order they took the lock
    drv_pc,             \* position of the driver: "collect", "returned", "raised"
    drv_orders,         \* the driver's orders list
    drv_exceptions,     \* the driver's exceptions list (customer of each)
    final_inventory,    \* the driver's final_inventory
    discrepancy,        \* the driver's actual_inventory_discrepancy
    report,             \* the dictionary get_inventory_report is building / has returned
    rep_pc,             \* position of a get_inventory_report call: 0 before it, 1 after
                        \* the orders part, 1 + k after k products
    bank_account,       \* race_condition_scenario: bank_account["balance"]
    transaction_log,    \* race_condition_scenario: transaction_log
    withdraw_pc,        \* position of each withdraw thread
    current_balance,    \* local current_balance of each withdraw call
    bank_main,          \* position of race_condition_scenario's main
    overlapped,         \* history: a withdraw call began while another was under way
    lock_a,             \* threading_deadlock_scenario: holder of lock_a, or NoThread
    lock_b,             \* threading_deadlock_scenario: holder of lock_b, or NoThread
    t_pc,               \* position of the threads A (t1) and B (t2)
    deadlock_main,      \* position of the module-level code (start, join)
    lock_events,        \* history: the acquisitions, in order, as <<thread, lock>>
    ninth_lock_a,       \* enhanced_ninth_scenario: holder of lock_a, or NoThread
    ninth_lock_b,       \* enhanced_ninth_scenario: holder of lock_b, or NoThread
    ninth_pc,           \* position of thread_1 and thread_2
    thread_states,      \* enhanced_ninth_scenario: thread_states
    ninth_main,         \* position of enhanced_ninth_scenario's main
    cv_owner,           \* threading_condition_variable_scenario: thread holding cv's lock
    data_ready,         \* threading_condition_variable_scenario: data_ready
    cv_waiting,         \* threads blocked in cv.wait()
    cv_pc,              \* position of the consumer (1) and the producer (2)
    cv_main,            \* position of the module-level code
    tenth_owner,        \* enhanced_tenth_scenario: thread holding cv's lock
    tenth_data_ready,   \* enhanced_tenth_scenario: data_ready
    tenth_waiting,      \* threads blocked in cv.wait(timeout=2.0)
    tenth_pc,           \* position of the consumer (1) and the producer (2)
    timeout_count,      \* the consumer's timeout_count
    producer_error,     \* producer_error is set
    consumer_error,     \* consumer_error is set
    tenth_main,         \* position of enhanced_tenth_scenario's main
    pool_variant,       \* database_pool_exhaustion_scenario: which get_connection is loaded
    connection_pool,    \* connection_pool
    pool_lock,          \* worker holding pool_lock
    active_connections, \* active_connections
    worker_pc,          \* position of each worker
    worker_conn,        \* the argument of each worker's release_connection call in progress (0: none)
    obtained,           \* the connections each worker has a reference to
    next_conn           \* the number of connections opened so far

\* the variables of the flash-sale scenario
inventory_vars ==
        <<products, orders, lock, product_id, use_safe, user_id, clock, pc,
          quantity, order_len, order_time, current_inventory, loaded, reserved,
          observed, stored, wrote, lock_order, drv_pc, drv_orders,
          drv_exceptions, final_inventory, discrepancy, report, rep_pc>>

\* the variables of race_condition_scenario.py
bank_vars == <<bank_account, transaction_log, withdraw_pc, current_balance,
               bank_main, overlapped>>

\* the variables of threading_deadlock_scenario.py
deadlock_vars == <<lock_a, lock_b, t_pc, deadlock_main, lock_events>>

\* the variables of enhanced_ninth_scenario.py
ninth_vars == <<ninth_lock_a, ninth_lock_b, ninth_pc, thread_states, ninth_main>>

\* the variables of threading_condition_variable_scenario.py
cv_vars == <<cv_owner, data_ready, cv_waiting, cv_pc, cv_main>>

\* the variables of enhanced_tenth_scenario.py
tenth_vars == <<tenth_owner, tenth_data_ready, tenth_waiting, tenth_pc,
                timeout_count, producer_error, consumer_error, tenth_main>>

\* the variables of database_pool_exhaustion_scenario.py
pool_vars == <<pool_variant, connection_pool, pool_lock, active_connections,
               worker_pc, worker_conn, obtained, next_conn>>

\* the variables of the scripts about a shared resource and its waiters
resource_vars == <<cv_vars, tenth_vars, pool_vars>>

\* the variables of the scripts under src/concurrency: each script is a
\* program of its own and leaves the state of the others alone
script_vars == <<bank_vars, deadlock_vars, ninth_vars, resource_vars>>

vars == <<inventory_vars, script_vars>>

ledger_vars == <<products, orders, lock>>
local_vars == <<quantity, order_len, order_time, current_inventory, loaded, reserved,
                observed>>
history_vars == <<stored, wrote, lock_order>>
driver_vars == <<drv_pc, drv_orders, drv_exceptions, final_inventory, discrepancy>>
run_vars == <<product_id, use_safe, user_id, clock>>
report_vars == <<report, rep_pc>>

\* ---------------------------------------------------------------- helpers
\* variant: an unknown product reads as a negative stock
get_product_inventory_Missing(pid) ==
    IF pid \in DOMAIN products THEN products[pid] ELSE -1

\* InventoryManager.get_product_inventory
get_product_inventory(pid) ==
    IF pid \in DOMAIN products THEN products[pid] ELSE 0

\* variant: a stock test that is off by one
Available_OffByOne(cur, q) == cur >= q - 1

\* variant: a stock test that only asks for a non-negative stock
Available_NonNegative(cur, q) == cur >= 0

\* variant: a stock test that keeps the last units back
Available_Strict(cur, q) == cur > q

\* `if current_inventory >= quantity:`
Available(cur, q) == cur >= q

\* variant: an overselling test that also fires on an empty stock
Oversold_AtZero(count) == count <= 0

\* variant: a stock of -1 passes for sold out
Oversold_BelowMinusOne(count) == count < -1

\* `if product.inventory_count < 0:` (detect overselling)
Oversold(count) == count < 0

\* variant: a decrement that takes one unit whatever the quantity
Decremented_OneUnit(old, q) == old - 1

\* the value `product.inventory_count -= quantity` writes back
Decremented(old, q) == old - q

\* variant: a lock that does not exclude
CanAcquire_NoExclusion(holder) == TRUE

\* variant: a lock that admits a second thread while the first is past its read
CanAcquire_AfterRead(holder) ==
    IF holder = NoThread THEN TRUE ELSE pc[holder] # "safe_read"

\* variant: the sleep inside the critical section gives the lock up
CanAcquire_DuringSleep(holder) ==
    IF holder = NoThread THEN TRUE ELSE pc[holder] = "safe_load"

\* threading.Lock: a thread enters `with self.lock:` only while nobody holds it
CanAcquire(holder) == holder = NoThread

\* variant: the order of a failed reservation is dropped
Recorded_ConfirmedOnly(log, order) ==
    IF order.status = "confirmed" THEN Append(log, order) ELSE log

\* variant: the newest order is put first
Recorded_Prepended(log, order) == <<order>> \o log

\* self.orders.append(order)
Recorded(log, order) == Append(log, order)

\* variant: an overselling attempt is logged as an ordinary rejection
StatusOf_NoOverselling(outcome) ==
    CASE outcome = "true" -> "confirmed"
      [] OTHER -> "failed_insufficient_inventory"

\* `self.products[product_id]` raises KeyError for an unknown product
KeyError(pid) == pid \notin DOMAIN products

\* variant: all products share one counter
Written_Shared(ps, pid, v) == [p \in DOMAIN ps |-> v]

\* `product.inventory_count -= quantity` assigns to the one Product object
Written(ps, pid, v) == [ps EXCEPT ![pid] = v]

\* variant: a rejected reservation returns with the lock still held
Released_SuccessOnly(outcome) == IF outcome = "false" THEN lock ELSE NoThread

\* variant: the lock is released on return only, an exception leaves it held
Released_ReturnOnly(outcome) == IF outcome = "keyerror" THEN lock ELSE NoThread

\* the holder of the lock after `with self.lock:` is left with this outcome
Released(outcome) == NoThread

\* variant: create_order swallows the overselling condition and returns the order
Reraised_Swallowed(outcome) == FALSE

\* create_order re-raises after logging the overselling attempt (`raise`)
Reraised(outcome) == outcome = "raised"

\* the status create_order gives the order for a reservation outcome
StatusOf(outcome) ==
    CASE outcome = "true" -> "confirmed"
      [] outcome = "false" -> "failed_insufficient_inventory"
      [] outcome = "raised" -> "failed_overselling"
      [] OTHER -> "pending"

\* Order(order_id, user_id, product_id, quantity, ..., status)
Order(c, outcome) ==
    [order_id |-> <<order_len[c], user_id[c], order_time[c]>>,
     user_id |-> user_id[c],
     product_id |-> product_id,
     quantity |-> quantity[c],
     status |-> StatusOf(outcome)]

RECURSIVE SumQuantity(_)
\* sum(o.quantity for o in s)
SumQuantity(s) ==
    IF s = <<>> THEN 0 ELSE Head(s).quantity + SumQuantity(Tail(s))

\* [o for o in s if o.status == "confirmed"]
Confirmed(s) == SelectSeq(s, LAMBDA o : o.status = "confirmed")

\* o.status.startswith("failed")
IsFailed(st) == st \in {"failed_insufficient_inventory", "failed_overselling"}

\* get_inventory_report: report["orders"]
ReportOrders(log) ==
    [total |-> Len(log),
     confirmed |-> Len(Confirmed(log)),
     failed |-> Len(SelectSeq(log, LAMBDA o : IsFailed(o.status)))]

\* get_inventory_report: report["products"][p]
ReportProduct(ps, log, p) ==
    [current_inventory |-> ps[p],
     orders_for_product |->
        Len(SelectSeq(log, LAMBDA o : o.product_id = p /\ o.status = "confirmed"))]

\* the report dictionary before anything is filled in
EmptyReport ==
    [orders |-> [total |-> 0, confirmed |-> 0, failed |-> 0],
     products |-> [p \in ProductIds |-> [current_inventory |-> 0, orders_for_product |-> 0]]]

\* InventoryManager.get_inventory_report, called while no other thread runs
get_inventory_report ==
    [orders |-> ReportOrders(orders),
     products |-> [p \in DOMAIN products |-> ReportProduct(products, orders, p)]]

\* ------------------------------------- the scripts under src/concurrency
\* race_condition_scenario.py: bank_account = {"balance": 1000.0}
InitialBalance == 1000
\* the withdrawals main starts, in list order
AliceAmount == 300
BobAmount == 400
CharlieAmount == 500
DavidAmount == 200

Holders == {"Alice", "Bob", "Charlie", "David"}

\* main's withdrawals list, in the order the threads are started
Withdrawals == <<"Alice", "Bob", "Charlie", "David">>

\* the amount of each account holder's withdrawal
Amount ==
    [h \in Holders |->
        CASE h = "Alice" -> AliceAmount
          [] h = "Bob" -> BobAmount
          [] h = "Charlie" -> CharlieAmount
          [] h = "David" -> DavidAmount]

\* race_condition_scenario.py as loaded: the globals, the threads not created
InitBank ==
    /\ bank_account = [balance |-> InitialBalance]
    /\ transaction_log = <<>>
    /\ withdraw_pc = [h \in Holders |-> "created"]
    /\ current_balance = [h \in Holders |-> 0]
    /\ bank_main = "start"
    /\ overlapped = FALSE

\* the two threads of a lock-order script: 1 takes lock_a first, 2 lock_b
Threads == {1, 2}

\* threading_deadlock_scenario.py before A.start()
InitDeadlock ==
    /\ lock_a = NoThread
    /\ lock_b = NoThread
    /\ t_pc = [t \in Threads |-> "created"]
    /\ deadlock_main = "start_A"
    /\ lock_events = <<>>

\* enhanced_ninth_scenario.py as loaded, before main starts the threads
InitNinth ==
    /\ ninth_lock_a = NoThread
    /\ ninth_lock_b = NoThread
    /\ ninth_pc = [t \in Threads |-> "created"]
    /\ thread_states = [t1_acquired_a |-> FALSE, t2_acquired_b |-> FALSE,
                        deadlock_detected |-> FALSE]
    /\ ninth_main = "start_t1"

\* the consumer (1) and the producer (2) of a condition-variable script
Consumer == 1
Producer == 2

\* threading_condition_variable_scenario.py before the consumer is started
InitCondition ==
    /\ cv_owner = NoThread
    /\ data_ready = FALSE
    /\ cv_waiting = {}
    /\ cv_pc = [t \in Threads |-> "created"]
    /\ cv_main = "start_consumer"

\* enhanced_tenth_scenario.py as loaded, before main starts the threads
InitTenth ==
    /\ tenth_owner = NoThread
    /\ tenth_data_ready = FALSE
    /\ tenth_waiting = {}
    /\ tenth_pc = [t \in Threads |-> "created"]
    /\ timeout_count = 0
    /\ producer_error = FALSE
    /\ consumer_error = FALSE
    /\ tenth_main = "start_consumer"

\* the number of concurrent workers, and the number of connections opened
\* after which no further get_connection call is started
NumWorkers == 2
MaxOpened == 6

Workers == 1..NumWorkers

\* the size of the pool (line 16)
MAX_CONNECTIONS == 5

\* database_pool_exhaustion_scenario.py as loaded: an empty pool
InitPool ==
    /\ pool_variant = "none"
    /\ connection_pool = <<>>
    /\ pool_lock = NoThread
    /\ active_connections = 0
    /\ worker_pc = [w \in Workers |-> "idle"]
    /\ worker_conn = [w \in Workers |-> 0]
    /\ obtained = [w \in Workers |-> {}]
    /\ next_conn = 0

\* none of the scripts has been started
InitScripts ==
    /\ InitBank /\ InitDeadlock /\ InitNinth
    /\ InitCondition /\ InitTenth /\ InitPool

\* ------------------------------------------------------------------- Init
\* the state of a new InventoryManager, of the threads not yet started and
\* of the driver before its loop
InitManager ==
    /\ InitScripts
    /\ products = InitialProducts
    /\ orders = <<>>
    /\ lock = NoThread
    /\ clock = 0
    /\ pc = [c \in Customers |-> "start"]
    /\ quantity = [c \in Customers |-> 0]
    /\ order_len = [c \in Customers |-> 0]
    /\ order_time = [c \in Customers |-> 0]
    /\ current_inventory = [c \in Customers |-> 0]
    /\ loaded = [c \in Customers |-> 0]
    /\ reserved = [c \in Customers |-> "none"]
    /\ observed = [c \in Customers |-> 0]
    /\ stored = [c \in Customers |-> 0]
    /\ wrote = [c \in Customers |-> FALSE]
    /\ lock_order = <<>>
    /\ drv_pc = "collect"
    /\ drv_orders = <<>>
    /\ drv_exceptions = <<>>
    /\ final_inventory = 0
    /\ discrepancy = 0
    /\ report = EmptyReport
    /\ rep_pc = 0

\* run_flash_sale_simulation(product_id, num_customers, use_safe_method):
\* every customer uses the same method and is user_<customer_id>
Init ==
    /\ InitManager
    /\ product_id \in SaleProducts
    /\ \E safe \in BOOLEAN : use_safe = [c \in Customers |-> safe]
    /\ user_id = [c \in Customers |-> c]

\* ---------------------------------------------------------------- actions
\* simulate_flash_sale_customer: choose the quantity, call create_order
Start(c) ==
    /\ pc[c] = "start"
    /\ \E q \in Quantities : quantity' = [quantity EXCEPT ![c] = q]
    /\ pc' = [pc EXCEPT ![c] = "create_order"]
    /\ UNCHANGED <<ledger_vars, run_vars, order_len, order_time, current_inventory, loaded,
                   reserved, observed, history_vars, driver_vars, report_vars>>
    /\ UNCHANGED script_vars

\* create_order: order_id reads len(self.orders), then the method is chosen
CreateOrderId(c) ==
    /\ pc[c] = "create_order"
    /\ order_len' = [order_len EXCEPT ![c] = Len(orders)]
    /\ order_time' = [order_time EXCEPT ![c] = clock]
    /\ pc' = [pc EXCEPT ![c] = IF use_safe[c] THEN "safe_acquire" ELSE "unsafe_read"]
    /\ UNCHANGED <<ledger_vars, run_vars, quantity, current_inventory, loaded,
                   reserved, observed, history_vars, driver_vars, report_vars>>
    /\ UNCHANGED script_vars

\* reserve_inventory_unsafe: read the stock and test it
UnsafeRead(c) ==
    /\ pc[c] = "unsafe_read"
    /\ LET cur == get_product_inventory(product_id) IN
        /\ current_inventory' = [current_inventory EXCEPT ![c] = cur]
        /\ IF Available(cur, quantity[c])
           THEN /\ pc' = [pc EXCEPT ![c] = "unsafe_load"]
                /\ reserved' = reserved
           ELSE /\ pc' = [pc EXCEPT ![c] = "append"]
                /\ reserved' = [reserved EXCEPT ![c] = "false"]
    /\ UNCHANGED <<ledger_vars, run_vars, quantity, order_len, order_time, loaded, observed,
                   history_vars, driver_vars, report_vars>>
    /\ UNCHANGED script_vars

\* reserve_inventory_unsafe: after the sleep, the read of `-= quantity`
UnsafeLoad(c) ==
    /\ pc[c] = "unsafe_load"
    /\ IF KeyError(product_id)
       THEN /\ reserved' = [reserved EXCEPT ![c] = "keyerror"]
            /\ pc' = [pc EXCEPT ![c] = "raised"]
            /\ loaded' = loaded
       ELSE /\ loaded' = [loaded EXCEPT ![c] = products[product_id]]
            /\ pc' = [pc EXCEPT ![c] = "unsafe_store"]
            /\ reserved' = reserved
    /\ UNCHANGED <<ledger_vars, run_vars, quantity, order_len, order_time,
                   current_inventory, observed, history_vars, driver_vars,
                   report_vars>>
    /\ UNCHANGED script_vars

\* reserve_inventory_unsafe: the write of `-= quantity`
UnsafeStore(c) ==
    /\ pc[c] = "unsafe_store"
    /\ products' = Written(products, product_id, Decremented(loaded[c], quantity[c]))
    /\ stored' = [stored EXCEPT ![c] = Decremented(loaded[c], quantity[c])]
    /\ wrote' = [wrote EXCEPT ![c] = TRUE]
    /\ pc' = [pc EXCEPT ![c] = "unsafe_detect"]
    /\ UNCHANGED <<orders, lock, run_vars, local_vars, lock_order, driver_vars, report_vars>>
    /\ UNCHANGED script_vars

\* reserve_inventory_unsafe: `if product.inventory_count < 0: raise`, else return True
UnsafeDetect(c) ==
    /\ pc[c] = "unsafe_detect"
    /\ observed' = [observed EXCEPT ![c] = products[product_id]]
    /\ reserved' = [reserved EXCEPT ![c] =
                        IF Oversold(products[product_id]) THEN "raised" ELSE "true"]
    /\ pc' = [pc EXCEPT ![c] = "append"]
    /\ UNCHANGED <<ledger_vars, run_vars, quantity, order_len, order_time, current_inventory,
                   loaded, history_vars, driver_vars, report_vars>>
    /\ UNCHANGED script_vars

\* reserve_inventory_safe: `with self.lock:` entry
SafeAcquire(c) ==
    /\ pc[c] = "safe_acquire"
    /\ CanAcquire(lock)
    /\ lock' = c
    /\ lock_order' = Append(lock_order, c)
    /\ pc' = [pc EXCEPT ![c] = "safe_read"]
    /\ UNCHANGED <<products, orders, run_vars, local_vars, stored, wrote, driver_vars, report_vars>>
    /\ UNCHANGED script_vars

\* reserve_inventory_safe: read the stock and test it
SafeRead(c) ==
    /\ pc[c] = "safe_read"
    /\ LET cur == get_product_inventory(product_id) IN
        /\ current_inventory' = [current_inventory EXCEPT ![c] = cur]
        /\ IF Available(cur, quantity[c])
           THEN /\ pc' = [pc EXCEPT ![c] = "safe_load"]
                /\ reserved' = reserved
           ELSE /\ pc' = [pc EXCEPT ![c] = "safe_release"]
                /\ reserved' = [reserved EXCEPT ![c] = "false"]
    /\ UNCHANGED <<ledger_vars, run_vars, quantity, order_len, order_time, loaded, observed,
                   history_vars, driver_vars, report_vars>>
    /\ UNCHANGED script_vars

\* reserve_inventory_safe: after the sleep, the read of `-= quantity`
SafeLoad(c) ==
    /\ pc[c] = "safe_load"
    /\ IF KeyError(product_id)
       THEN /\ reserved' = [reserved EXCEPT ![c] = "keyerror"]
            /\ pc' = [pc EXCEPT ![c] = "safe_release"]
            /\ loaded' = loaded
       ELSE /\ loaded' = [loaded EXCEPT ![c] = products[product_id]]
            /\ pc' = [pc EXCEPT ![c] = "safe_store"]
            /\ reserved' = reserved
    /\ UNCHANGED <<ledger_vars, run_vars, quantity, order_len, order_time,
                   current_inventory, observed, history_vars, driver_vars,
                   report_vars>>
    /\ UNCHANGED script_vars

\* reserve_inventory_safe: the write of `-= quantity`, then return True
SafeStore(c) ==
    /\ pc[c] = "safe_store"
    /\ products' = Written(products, product_id, Decremented(loaded[c], quantity[c]))
    /\ stored' = [stored EXCEPT ![c] = Decremented(loaded[c], quantity[c])]
    /\ wrote' = [wrote EXCEPT ![c] = TRUE]
    /\ reserved' = [reserved EXCEPT ![c] = "true"]
    /\ pc' = [pc EXCEPT ![c] = "safe_release"]
    /\ UNCHANGED <<orders, lock, run_vars, quantity, order_len, order_time, current_inventory,
                   loaded, observed, lock_order, driver_vars, report_vars>>
    /\ UNCHANGED script_vars

\* reserve_inventory_safe: `with self.lock:` exit
SafeRelease(c) ==
    /\ pc[c] = "safe_release"
    /\ lock' = Released(reserved[c])
    /\ pc' = [pc EXCEPT ![c] = IF reserved[c] = "keyerror" THEN "raised" ELSE "append"]
    /\ UNCHANGED <<products, orders, run_vars, local_vars, history_vars, driver_vars, report_vars>>
    /\ UNCHANGED script_vars

\* create_order: self.orders.append(order), then return the order or re-raise
AppendOrder(c) ==
    /\ pc[c] = "append"
    /\ orders' = Recorded(orders, Order(c, reserved[c]))
    /\ pc' = [pc EXCEPT ![c] = IF Reraised(reserved[c]) THEN "raised" ELSE "returned"]
    /\ UNCHANGED <<products, lock, run_vars, local_vars, history_vars, driver_vars, report_vars>>
    /\ UNCHANGED script_vars

\* variant: only a negative final stock makes the run raise
RunRaises_NegativeOnly(final, exceptions) == final < 0

\* run_flash_sale_simulation raises instead of returning its result:
\* `if final_inventory < 0: raise`, `if len(exceptions) > 0: raise`
RunRaises(final, exceptions) == final < 0 \/ Len(exceptions) > 0

\* the customers the driver has taken from as_completed
Collected ==
    {drv_orders[i].user_id : i \in 1 .. Len(drv_orders)}
        \cup {drv_exceptions[i] : i \in 1 .. Len(drv_exceptions)}

\* run_flash_sale_simulation: one iteration of `for future in as_completed(futures)`
Collect(c) ==
    /\ drv_pc = "collect"
    /\ c \notin Collected
    /\ pc[c] \in {"returned", "raised"}
    /\ IF pc[c] = "returned"
       THEN /\ drv_orders' = Append(drv_orders, Order(c, reserved[c]))
            /\ drv_exceptions' = drv_exceptions
       ELSE /\ drv_exceptions' = Append(drv_exceptions, c)
            /\ drv_orders' = drv_orders
    /\ UNCHANGED <<ledger_vars, run_vars, pc, local_vars, history_vars, drv_pc,
                   final_inventory, discrepancy, report_vars>>
    /\ UNCHANGED script_vars

\* run_flash_sale_simulation: the analysis after the pool has shut down
Analysis ==
    /\ drv_pc = "collect"
    /\ Collected = Customers
    /\ LET final == get_product_inventory(product_id)
           initial_inventory == IF product_id \in DOMAIN InitialProducts
                                THEN InitialProducts[product_id] ELSE 0
           total_units_sold == SumQuantity(Confirmed(drv_orders))
           expected_final_inventory == initial_inventory - total_units_sold
       IN /\ final_inventory' = final
          /\ report' = get_inventory_report
          /\ discrepancy' = final - expected_final_inventory
          /\ drv_pc' = IF RunRaises(final, drv_exceptions)
                       THEN "raised" ELSE "returned"
    /\ UNCHANGED <<ledger_vars, run_vars, pc, local_vars, history_vars,
                   drv_orders, drv_exceptions, rep_pc>>
    /\ UNCHANGED script_vars

Next ==
    \/ \E c \in Customers : Start(c)
    \/ \E c \in Customers : CreateOrderId(c)
    \/ \E c \in Customers : UnsafeRead(c)
    \/ \E c \in Customers : UnsafeLoad(c)
    \/ \E c \in Customers : UnsafeStore(c)
    \/ \E c \in Customers : UnsafeDetect(c)
    \/ \E c \in Customers : SafeAcquire(c)
    \/ \E c \in Customers : SafeRead(c)
    \/ \E c \in Customers : SafeLoad(c)
    \/ \E c \in Customers : SafeStore(c)
    \/ \E c \in Customers : SafeRelease(c)
    \/ \E c \in Customers : AppendOrder(c)
    \/ \E c \in Customers : Collect(c)
    \/ Analysis

Spec == Init /\ [][Next]_vars

\* ------------------------------------------- a report taken during a safe run
\* get_inventory_report called by another thread: the orders part (lines 132-139)
ReportBegin ==
    /\ rep_pc = 0
    /\ report' = [report EXCEPT !.orders = ReportOrders(orders)]
    /\ rep_pc' = 1
    /\ UNCHANGED <<ledger_vars, run_vars, pc, local_vars, history_vars, driver_vars>>
    /\ UNCHANGED script_vars

\* get_inventory_report: one iteration of `for product_id, product in
\* self.products.items()`; the call returns after the last one
ReportNextProduct ==
    /\ rep_pc \in 1 .. Len(ProductOrder)
    /\ LET p == ProductOrder[rep_pc] IN
          report' = [report EXCEPT !.products[p] = ReportProduct(products, orders, p)]
    /\ rep_pc' = rep_pc + 1
    /\ UNCHANGED <<ledger_vars, run_vars, pc, local_vars, history_vars, driver_vars>>
    /\ UNCHANGED script_vars

\* a safe run
InitReport ==
    /\ Init
    /\ \A c \in Customers : use_safe[c]

\* the safe customers and the reporting thread
NextReport ==
    \/ \E c \in Customers : Start(c)
    \/ \E c \in Customers : CreateOrderId(c)
    \/ \E c \in Customers : SafeAcquire(c)
    \/ \E c \in Customers : SafeRead(c)
    \/ \E c \in Customers : SafeLoad(c)
    \/ \E c \in Customers : SafeStore(c)
    \/ \E c \in Customers : SafeRelease(c)
    \/ \E c \in Customers : AppendOrder(c)
    \/ ReportBegin
    \/ ReportNextProduct

SpecReport == InitReport /\ [][NextReport]_vars

\* --------------------------------- create_order called with arbitrary arguments
\* a product identifier that is not a key of self.products
UnknownProduct == "unknown_999"

\* the quantities of the modelled requests: negative, zero and positive
RequestQuantities == -1 .. 1

\* a caller passes any quantity to create_order
StartRequest(c) ==
    /\ pc[c] = "start"
    /\ \E q \in RequestQuantities : quantity' = [quantity EXCEPT ![c] = q]
    /\ pc' = [pc EXCEPT ![c] = "create_order"]
    /\ UNCHANGED <<ledger_vars, run_vars, order_len, order_time, current_inventory,
                   loaded, reserved, observed, history_vars, driver_vars,
                   report_vars>>
    /\ UNCHANGED script_vars

\* the requests are for a known or for an unknown product
InitRequests ==
    /\ InitManager
    /\ product_id \in {"tablet_003", UnknownProduct}
    /\ \E safe \in BOOLEAN : use_safe = [c \in Customers |-> safe]
    /\ user_id = [c \in Customers |-> c]

NextRequests ==
    \/ \E c \in Customers : StartRequest(c)
    \/ \E c \in Customers : CreateOrderId(c)
    \/ \E c \in Customers : UnsafeRead(c)
    \/ \E c \in Customers : UnsafeLoad(c)
    \/ \E c \in Customers : UnsafeStore(c)
    \/ \E c \in Customers : UnsafeDetect(c)
    \/ \E c \in Customers : SafeAcquire(c)
    \/ \E c \in Customers : SafeRead(c)
    \/ \E c \in Customers : SafeLoad(c)
    \/ \E c \in Customers : SafeStore(c)
    \/ \E c \in Customers : SafeRelease(c)
    \/ \E c \in Customers : AppendOrder(c)

SpecRequests == InitRequests /\ [][NextRequests]_vars

\* ------------------------------- create_order called by users more than once
\* the users of the calls
Users == 0 .. MaxUser

\* time.time() passes into the next whole second
Tick ==
    /\ clock < MaxClock
    /\ clock' = clock + 1
    /\ UNCHANGED <<ledger_vars, product_id, use_safe, user_id, pc, local_vars,
                   history_vars, driver_vars, report_vars>>
    /\ UNCHANGED script_vars

\* safe calls on one product, each by any of the users
InitUsers ==
    /\ InitManager
    /\ product_id = "tablet_003"
    /\ use_safe = [c \in Customers |-> TRUE]
    /\ user_id \in [Customers -> Users]

NextUsers ==
    \/ \E c \in Customers : Start(c)
    \/ \E c \in Customers : CreateOrderId(c)
    \/ \E c \in Customers : SafeAcquire(c)
    \/ \E c \in Customers : SafeRead(c)
    \/ \E c \in Customers : SafeLoad(c)
    \/ \E c \in Customers : SafeStore(c)
    \/ \E c \in Customers : SafeRelease(c)
    \/ \E c \in Customers : AppendOrder(c)
    \/ Tick

SpecUsers == InitUsers /\ [][NextUsers]_vars

\* ------------------------------------------ calls issued one after another
\* customer c is not inside a create_order call
Idle(c) == pc[c] \in {"start", "returned", "raised"}

\* each call uses either method
InitSequential ==
    /\ InitManager
    /\ product_id \in SaleProducts
    /\ use_safe \in [Customers -> BOOLEAN]
    /\ user_id = [c \in Customers |-> c]

\* a call takes its steps while no other call is in progress
NextSequential ==
    \E c \in Customers :
        /\ \A d \in Customers \ {c} : Idle(d)
        /\ \/ Start(c)
           \/ CreateOrderId(c)
           \/ UnsafeRead(c)
           \/ UnsafeLoad(c)
           \/ UnsafeStore(c)
           \/ UnsafeDetect(c)
           \/ SafeAcquire(c)
           \/ SafeRead(c)
           \/ SafeLoad(c)
           \/ SafeStore(c)
           \/ SafeRelease(c)
           \/ AppendOrder(c)

SpecSequential == InitSequential /\ [][NextSequential]_vars

\* ----------------------------------------------------------- vocabulary
AllSafe == \A c \in Customers : use_safe[c]
AllUnsafe == \A c \in Customers : ~use_safe[c]
Finished(c) == pc[c] \in {"returned", "raised"}
AllFinished == \A c \in Customers : Finished(c)
InitialStock == InitialProducts[product_id]
StatusCount(st) == Cardinality({i \in 1 .. Len(orders) : orders[i].status = st})
\* the customer's step: its position changes
Steps(c) == pc'[c] # pc[c]

\* --------------------------------------------------------------------- C1
\* C1: in a run whose customers all use reserve_inventory_safe, the stock of
\* the product on sale is >= 0 in every reachable state, for every
\* interleaving and every choice of quantities >= 1.
C1_SafeStockNeverNegative ==
    AllSafe => products[product_id] >= 0

\* a safe run has finished with the stock sold out and a customer turned away
C1_Witness ==
    /\ AllSafe /\ AllFinished
    /\ products[product_id] = 0
    /\ StatusCount("failed_insufficient_inventory") > 0

\* --------------------------------------------------------------------- C2
\* C2: once every customer of a safe run has finished create_order, the stock
\* equals the initial stock minus the quantities of the confirmed orders, and
\* the discrepancy the driver computes is 0.
C2_SafeConservationAtQuiescence ==
    AllSafe =>
        /\ AllFinished =>
              products[product_id] = InitialStock - SumQuantity(Confirmed(orders))
        /\ drv_pc # "collect" =>
              /\ final_inventory = InitialStock - SumQuantity(Confirmed(orders))
              /\ discrepancy = 0

\* the driver of a safe run has finished its analysis after sales and rejections
C2_Witness ==
    /\ AllSafe /\ drv_pc = "returned"
    /\ StatusCount("confirmed") > 0
    /\ StatusCount("failed_insufficient_inventory") > 0
    /\ \E i \in 1 .. Len(orders) : orders[i].quantity = 2 /\ orders[i].status = "confirmed"

\* --------------------------------------------------------------------- C3
RECURSIVE SerialStock(_, _)
\* the stock after the calls of s ran one after another on stock n
SerialStock(s, n) ==
    IF s = <<>> THEN n
    ELSE SerialStock(Tail(s),
                     IF n >= quantity[Head(s)] THEN n - quantity[Head(s)] ELSE n)

\* the position of customer c in the order the lock was taken
LockIndex(c) == CHOOSE i \in 1 .. Len(lock_order) : lock_order[i] = c

\* the stock the serial run offers to customer c
SerialStockBefore(c) ==
    SerialStock(SubSeq(lock_order, 1, LockIndex(c) - 1), InitialStock)

\* C3: in a safe run every call returns what it returns when the calls run
\* one after another in the order in which they took the lock, and whenever
\* the lock is free the stock is the stock of that serial run.
C3_SafeLinearizable ==
    AllSafe =>
        /\ \A c \in Customers : reserved[c] # "none" =>
              /\ \E i \in 1 .. Len(lock_order) : lock_order[i] = c
              /\ reserved[c] =
                    IF SerialStockBefore(c) >= quantity[c] THEN "true" ELSE "false"
        /\ lock = NoThread =>
              products[product_id] = SerialStock(lock_order, InitialStock)

\* a safe run finished in which the lock was not taken in customer order and
\* both outcomes occurred
C3_Witness ==
    /\ AllSafe /\ AllFinished
    /\ Len(lock_order) = NumCustomers /\ lock_order[1] # 0
    /\ \E c, d \in Customers : reserved[c] = "true" /\ reserved[d] = "false"

\* --------------------------------------------------------------------- C4
\* C4: a reserve call, safe or unsafe, that reads a stock smaller than the
\* requested quantity returns False: it does not raise, and neither that step
\* nor any later step of the call changes the stock of any product.
C4_RejectionLeavesStock ==
    [][\A c \in Customers :
          /\ (/\ pc[c] \in {"unsafe_read", "safe_read"}
              /\ Steps(c)
              /\ get_product_inventory(product_id) < quantity[c])
                => (reserved'[c] = "false" /\ products' = products)
          /\ (reserved[c] = "false" /\ Steps(c))
                => (reserved'[c] = "false" /\ products' = products)
          /\ reserved'[c] = "false" => ~wrote'[c]]_vars

\* an unsafe call was rejected and has returned
C4_Witness ==
    \E c \in Customers :
        /\ ~use_safe[c] /\ pc[c] = "returned" /\ reserved[c] = "false"
        /\ current_inventory[c] < quantity[c]

\* --------------------------------------------------------------------- C5
\* C5: in an unsafe run the stock is negative only after some customer has
\* decremented a stock lower than the one it had checked (it passed the stock
\* check before another customer's decrement); with stock 2 and customers
\* asking for 1 unit each such an interleaving exists (C5_Witness).
C5_NegativeOnlyByStaleCheck ==
    (AllUnsafe /\ products[product_id] < 0) =>
        \E c \in Customers :
            /\ wrote[c]
            /\ current_inventory[c] >= quantity[c]
            /\ loaded[c] < current_inventory[c]

\* stock 2, every customer asks for 1 unit through the unsafe path, all have
\* finished and the final stock is negative
C5_Witness ==
    /\ AllUnsafe /\ AllFinished
    /\ product_id = "tablet_003"
    /\ \A c \in Customers : quantity[c] = 1
    /\ products[product_id] < 0

\* --------------------------------------------------------------------- C6
\* C6: an unsafe reservation whose decrement wrote a stock below zero ends by
\* raising the overselling condition, not by returning True or False.
C6_NegativeDecrementRaises ==
    \A c \in Customers :
        (/\ ~use_safe[c]
         /\ wrote[c] /\ stored[c] < 0
         /\ pc[c] \in {"append", "returned", "raised"})
            => reserved[c] = "raised"

\* --------------------------------------------------------------------- C7
\* C7: a reservation ends by raising the overselling condition only if it is
\* an unsafe one and the stock it read after its own decrement was negative;
\* a safe reservation never raises, and an unsafe one that read a stock >= 0
\* after its decrement returns True.
C7_RaisedOnlyOnObservedNegative ==
    \A c \in Customers :
        /\ reserved[c] = "raised" => (~use_safe[c] /\ wrote[c] /\ observed[c] < 0)
        /\ use_safe[c] => reserved[c] # "raised"
        /\ (~use_safe[c] /\ wrote[c] /\ reserved[c] # "none" /\ observed[c] >= 0)
              => reserved[c] = "true"

\* one unsafe call has raised after reading a negative stock while another,
\* which read stock 0 after its decrement, has returned True
C7_Witness ==
    \E c, d \in Customers :
        /\ pc[c] = "raised" /\ reserved[c] = "raised" /\ observed[c] < 0
        /\ pc[d] = "returned" /\ ~use_safe[d] /\ reserved[d] = "true" /\ observed[d] = 0

\* --------------------------------------------------------------------- C8
\* the orders of customer c in the log
OrdersOf(c) == {i \in 1 .. Len(orders) : orders[i].user_id = c}

\* get_inventory_report()["orders"]["total"]
ReportTotal == get_inventory_report.orders.total

\* C8: when all N create_order attempts have completed, in safe or unsafe
\* mode, the log holds exactly N orders, one for each attempt, the attempts
\* that raised the overselling condition included.
C8_OrderLogComplete ==
    AllFinished =>
        /\ ReportTotal = NumCustomers
        /\ \A c \in Customers : Cardinality(OrdersOf(c)) = 1

\* an unsafe run has completed and one of its attempts ended by raising
C8_Witness ==
    /\ AllFinished
    /\ \E c \in Customers : pc[c] = "raised"
    /\ \E d \in Customers : pc[d] = "returned"

\* --------------------------------------------------------------------- C9
\* C9: every order in the log has a terminal status that matches the outcome
\* of its customer's reservation (confirmed iff True, failed_insufficient_inventory
\* iff False, failed_overselling iff raised), no logged order is pending, and
\* a customer has at most one order, exactly one once its attempt has ended.
C9_OneTerminalOrderPerAttempt ==
    /\ \A i \in 1 .. Len(orders) :
          LET o == orders[i] IN
          /\ o.status \in {"confirmed", "failed_insufficient_inventory",
                           "failed_overselling"}
          /\ o.status = "confirmed" <=> reserved[o.user_id] = "true"
          /\ o.status = "failed_insufficient_inventory" <=> reserved[o.user_id] = "false"
          /\ o.status = "failed_overselling" <=> reserved[o.user_id] = "raised"
    /\ \A c \in Customers :
          /\ Cardinality(OrdersOf(c)) <= 1
          /\ Finished(c) <=> Cardinality(OrdersOf(c)) = 1

\* a completed run whose log holds all three terminal statuses
C9_Witness ==
    /\ AllFinished
    /\ StatusCount("confirmed") > 0
    /\ StatusCount("failed_insufficient_inventory") > 0
    /\ StatusCount("failed_overselling") > 0

\* -------------------------------------------------------------------- C10
\* C10: the order log is append-only: every step leaves the orders already in
\* the log in place and unmodified, so the log before a step is a prefix of
\* the log after it.
C10_OrderLogAppendOnly ==
    [][/\ Len(orders') >= Len(orders)
       /\ SubSeq(orders', 1, Len(orders)) = orders]_vars

\* the log holds the orders of all customers of a run
C10_Witness ==
    /\ Len(orders) = NumCustomers
    /\ \E i, j \in 1 .. Len(orders) : orders[i].status # orders[j].status

\* -------------------------------------------------------------------- C11
\* the customers whose exception the driver has captured
CapturedCustomers == {drv_exceptions[i] : i \in 1 .. Len(drv_exceptions)}

\* C11: when the driver's collection loop has ended, every customer has
\* contributed exactly one entry, a returned order or a captured exception
\* (len(orders) + len(exceptions) = N), whatever the other customers did, and
\* the failed_overselling orders of the log are exactly the orders of the
\* customers whose exception was captured, one each.
C11_PartialFailureIsolation ==
    drv_pc # "collect" =>
        /\ Len(drv_orders) + Len(drv_exceptions) = NumCustomers
        /\ \A c \in Customers :
              Cardinality({i \in 1 .. Len(drv_orders) : drv_orders[i].user_id = c})
                + Cardinality({i \in 1 .. Len(drv_exceptions) : drv_exceptions[i] = c}) = 1
        /\ StatusCount("failed_overselling") = Len(drv_exceptions)
        /\ \A i \in 1 .. Len(orders) :
              orders[i].status = "failed_overselling"
                 <=> orders[i].user_id \in CapturedCustomers

\* the collection loop ended after one customer raised and the others,
\* one of them finishing after it, returned their orders
C11_Witness ==
    /\ drv_pc # "collect"
    /\ Len(drv_exceptions) = 1
    /\ Len(drv_orders) = NumCustomers - 1
    /\ orders[1].status = "failed_overselling"

\* -------------------------------------------------------------------- C12
\* the smaller of two numbers
Min(a, b) == IF a <= b THEN a ELSE b

\* C12: a safe run whose N customers ask for 1 unit each, on a product with
\* initial stock S, always ends with the driver returning: exactly min(S, N)
\* confirmed orders, N - min(S, N) failed_insufficient_inventory orders and no
\* other order, final stock S - min(S, N) and discrepancy 0 (for S = 3 and
\* N = 10: 3 confirmed, 7 failed, final stock 0).
C12_SafeScenarioOutcome ==
    (AllSafe /\ drv_pc # "collect" /\ \A c \in Customers : quantity[c] = 1) =>
        /\ drv_pc = "returned"
        /\ StatusCount("confirmed") = Min(InitialStock, NumCustomers)
        /\ StatusCount("failed_insufficient_inventory")
              = NumCustomers - Min(InitialStock, NumCustomers)
        /\ Len(orders) = NumCustomers
        /\ final_inventory = InitialStock - Min(InitialStock, NumCustomers)
        /\ discrepancy = 0

\* a safe run of unit purchases has returned with the stock sold out, the
\* whole initial stock confirmed and the remaining customer rejected
C12_Witness ==
    /\ AllSafe /\ drv_pc = "returned"
    /\ \A c \in Customers : quantity[c] = 1
    /\ InitialStock < NumCustomers
    /\ StatusCount("confirmed") = InitialStock
    /\ StatusCount("failed_insufficient_inventory") = NumCustomers - InitialStock
    /\ final_inventory = 0

\* -------------------------------------------------------------------- C13
RECURSIVE SumOver(_, _)
\* the sum of f[c] over the customers of set S
SumOver(S, f) ==
    IF S = {} THEN 0
    ELSE LET c == CHOOSE x \in S : TRUE IN f[c] + SumOver(S \ {c}, f)

\* the customers whose reservation has decremented the stock and whose order
\* is not in the log yet
Unlogged == {c \in Customers : wrote[c] /\ pc[c] \in {"safe_release", "append"}}

\* C13 as stated: in every reachable state of a safe run the stock equals the
\* initial stock minus the quantities of the confirmed orders in the log.
C13_StockMatchesLogAlways ==
    AllSafe => products[product_id] = InitialStock - SumQuantity(Confirmed(orders))

\* C13 amended: in every reachable state of a safe run the stock equals the
\* initial stock minus the quantities of the confirmed orders in the log minus
\* the quantities of the reservations that have decremented the stock but
\* whose order has not been appended yet.
C13_StockMatchesReservationsAlways ==
    AllSafe =>
        /\ products[product_id] =
              InitialStock - SumQuantity(Confirmed(orders)) - SumOver(Unlogged, quantity)
        /\ products[product_id] <= InitialStock - SumQuantity(Confirmed(orders))

\* a safe reservation has decremented the stock and released the lock, its
\* order is not logged yet, while another customer's confirmed order is
C13_Witness ==
    /\ AllSafe
    /\ \E c \in Customers : wrote[c] /\ pc[c] = "append"
    /\ StatusCount("confirmed") > 0

\* -------------------------------------------------------------------- C14
\* a get_inventory_report call has read part of the state and not returned
ReportInProgress == rep_pc \in 1 .. Len(ProductOrder)

\* a safe customer is between the entry and the exit of `with self.lock:`
InCriticalSection(c) ==
    pc[c] \in {"safe_read", "safe_load", "safe_store", "safe_release"}

\* C14: a report taken during a safe run never overlaps a safe-mode
\* check-then-decrement: while get_inventory_report is reading, no customer
\* is inside the critical section of reserve_inventory_safe.
C14_ReportExcludesReservations ==
    ReportInProgress => \A c \in Customers : ~InCriticalSection(c)

\* -------------------------------------------------------------------- C15
\* the request of customer c has a non-positive quantity or an unknown product
Malformed(c) == quantity[c] <= 0 \/ product_id \notin ProductIds

\* C15: a create_order call with a non-positive quantity or an unknown
\* product ends in an error, is never confirmed and never writes a stock, and
\* no stock ever rises above its initial value.
C15_MalformedSurfaced ==
    /\ \A c \in Customers : (pc[c] # "start" /\ Malformed(c)) =>
          /\ reserved[c] # "true"
          /\ ~wrote[c]
          /\ Finished(c) => pc[c] = "raised"
    /\ \A p \in ProductIds : products[p] <= InitialProducts[p]

\* -------------------------------------------------------------------- C16
\* C16: no two orders in the log have the same order_id, whatever the users
\* of the concurrent create_order calls and the second in which they call.
C16_OrderIdsUnique ==
    \A i, j \in 1 .. Len(orders) :
        i # j => orders[i].order_id # orders[j].order_id

\* -------------------------------------------------------------------- C17
\* C17: a call of get_product_inventory (the stock read of either reserve
\* method) yields the product's current inventory_count for a known product
\* and 0 for an unknown one, does not raise, and changes neither a stock, nor
\* the set of products, nor the order log.
C17_GetProductInventoryPure ==
    [][\A c \in Customers :
          (pc[c] \in {"unsafe_read", "safe_read"} /\ Steps(c)) =>
              /\ current_inventory'[c] =
                    IF product_id \in ProductIds THEN products[product_id] ELSE 0
              /\ pc'[c] # "raised"
              /\ products' = products
              /\ DOMAIN products' = ProductIds
              /\ orders' = orders]_vars

\* calls for an unknown product have read stock 0: one asking for 1 unit was
\* rejected, one asking for no unit went on to the KeyError of the decrement
C17_Witness ==
    /\ product_id = UnknownProduct
    /\ \E c \in Customers :
          pc[c] = "returned" /\ reserved[c] = "false" /\ current_inventory[c] = 0
    /\ \E d \in Customers : reserved[d] = "keyerror" /\ current_inventory[d] = 0

\* -------------------------------------------------------------------- C18
\* the customers whose reservation returned True
Succeeded == {c \in Customers : reserved[c] = "true"}

\* C18: when the calls do not overlap, a reserve call of either method that
\* finds stock n returns True and writes n - q exactly when n >= q, and
\* otherwise returns False without writing; no call raises, the stock is
\* never negative, and between calls it is the initial stock minus the
\* quantities of the calls that returned True, whatever method each used.
C18_SequentialModesAgree ==
    /\ products[product_id] >= 0
    /\ \A c \in Customers : reserved[c] # "none" =>
          /\ reserved[c] =
                IF current_inventory[c] >= quantity[c] THEN "true" ELSE "false"
          /\ reserved[c] = "true" =>
                (wrote[c] /\ stored[c] = current_inventory[c] - quantity[c])
          /\ reserved[c] = "false" => ~wrote[c]
    /\ \A c \in Customers : pc[c] # "raised"
    /\ (\A c \in Customers : Idle(c)) =>
          products[product_id] = InitialStock - SumOver(Succeeded, quantity)

\* calls of both methods have run one after another; the unsafe one took the
\* last unit, a later safe one was rejected
C18_Witness ==
    /\ AllFinished
    /\ products[product_id] = 0
    /\ \E c, d \in Customers :
          /\ ~use_safe[c] /\ reserved[c] = "true" /\ stored[c] = 0
          /\ use_safe[d] /\ reserved[d] = "false"

\* -------------------------------------------------------------------- C19
\* C19: the set of products never changes, and a stock changes only in the
\* decrement step of a reservation and only for the product that reservation
\* was asked for; the bookkeeping of create_order, get_product_inventory, the
\* driver's collection and get_inventory_report change no stock.
C19_StockFrame ==
    [][/\ DOMAIN products' = ProductIds
       /\ \A p \in ProductIds :
             products'[p] # products[p] =>
                /\ p = product_id
                /\ \E c \in Customers :
                      pc[c] \in {"unsafe_store", "safe_store"} /\ Steps(c)]_vars

\* the run is over and its report taken: the product on sale has lost stock,
\* every other product has the stock it was constructed with
C19_Witness ==
    /\ drv_pc # "collect"
    /\ report = get_inventory_report
    /\ products[product_id] < InitialProducts[product_id]
    /\ \A p \in ProductIds \ {product_id} :
          /\ products[p] = InitialProducts[p]
          /\ report.products[p].current_inventory = InitialProducts[p]

\* ------------------------------------------- a safe run under fair scheduling
\* run_flash_sale_simulation with use_safe_method=True, for a known or for an
\* unknown product
InitFair ==
    /\ InitManager
    /\ product_id \in {"tablet_003", UnknownProduct}
    /\ use_safe = [c \in Customers |-> TRUE]
    /\ user_id = [c \in Customers |-> c]

\* the steps of the pool thread that runs customer c
Customer(c) ==
    \/ StartRequest(c)
    \/ CreateOrderId(c)
    \/ SafeAcquire(c)
    \/ SafeRead(c)
    \/ SafeLoad(c)
    \/ SafeStore(c)
    \/ SafeRelease(c)
    \/ AppendOrder(c)

\* the steps of the thread that called run_flash_sale_simulation
Driver ==
    \/ \E c \in Customers : Collect(c)
    \/ Analysis

NextFair ==
    \/ \E c \in Customers : Customer(c)
    \/ Driver

\* every thread that can take a step is eventually scheduled
Fairness ==
    /\ \A c \in Customers : WF_vars(Customer(c))
    /\ WF_vars(Driver)

SpecFair == InitFair /\ [][NextFair]_vars /\ Fairness

\* -------------------------------------------------------------------- C20
\* C20: in a safe run under fair scheduling, eventually every customer has
\* held the ledger lock (none waits for it forever), every create_order call
\* has completed, the lock is free and the driver has left its loop over the
\* futures.
C20_CollectionTerminates ==
    <>(/\ \A c \in Customers : \E i \in 1 .. Len(lock_order) : lock_order[i] = c
       /\ AllFinished
       /\ lock = NoThread
       /\ Collected = Customers
       /\ drv_pc # "collect")

\* the driver has finished a run in which one call left reserve_inventory_safe
\* by the KeyError and another by the rejection, each after holding the lock
C20_Witness ==
    /\ drv_pc # "collect"
    /\ lock = NoThread
    /\ Len(lock_order) = NumCustomers
    /\ \E c, d \in Customers :
          /\ reserved[c] = "keyerror" /\ pc[c] = "raised"
          /\ reserved[d] = "false" /\ pc[d] = "returned"

\* -------------------------------------------------------------------- C21
\* the steps of customer d inside `with self.lock:`
CriticalStep(d) ==
    \/ SafeRead(d)
    \/ SafeLoad(d)
    \/ SafeStore(d)
    \/ SafeRelease(d)

\* C21: a customer about to append its order does not hold the ledger lock
\* and can append whoever holds it; a customer inside the safe critical
\* section can take its step while others are appending; and every call that
\* has passed the append has exactly one order in the log.
C21_AppendOutsideLock ==
    /\ \A c \in Customers : pc[c] = "append" =>
          /\ lock # c
          /\ ENABLED AppendOrder(c)
    /\ \A c, d \in Customers :
          (pc[c] = "append" /\ InCriticalSection(d)) =>
              /\ lock = d
              /\ ENABLED CriticalStep(d)
    /\ \A c \in Customers :
          (pc[c] = "returned" \/ (pc[c] = "raised" /\ reserved[c] = "raised")) =>
              Cardinality(OrdersOf(c)) = 1

\* two customers are about to append while a third is in the critical
\* section, between its check and its decrement
C21_Witness ==
    \E c, d, e \in Customers :
        /\ c # d
        /\ pc[c] = "append" /\ pc[d] = "append"
        /\ reserved[c] = "true" /\ reserved[d] = "false"
        /\ pc[e] = "safe_load" /\ lock = e

\* -------------------------------------------------------------------- C22
\* the customers between the stock read and the stock write of
\* reserve_inventory_safe: the lock is taken and the write is still to come
BetweenReadAndWrite ==
    {c \in Customers : pc[c] \in {"safe_read", "safe_load", "safe_store"}}

\* customer c stays in the sleep of line 86 during the step
Sleeps(c) == pc[c] = "safe_load" /\ pc'[c] = "safe_load"

\* C22: in a safe run at most one thread is between the stock read and the
\* stock write of reserve_inventory_safe and it is the holder of the lock;
\* while a thread sleeps inside the critical section the lock stays its own,
\* the stock does not change and no other thread reads the stock.
C22_ExclusionAcrossDelay ==
    [][AllSafe =>
          /\ Cardinality(BetweenReadAndWrite) <= 1
          /\ \A c \in BetweenReadAndWrite : lock = c
          /\ \A c \in Customers : Sleeps(c) =>
                /\ lock' = c
                /\ products' = products
                /\ current_inventory' = current_inventory]_vars

\* a thread sleeps in the critical section while the two others wait for the lock
C22_Witness ==
    /\ AllSafe
    /\ \E c \in Customers :
          /\ pc[c] = "safe_load" /\ lock = c
          /\ \A d \in Customers \ {c} : pc[d] = "safe_acquire"

\* -------------------------------------------------------------------- C23
\* the test a caller makes on a returned result:
\* `if safe_results["final_inventory"] < 0` (main, tests 2 and 3)
CallerSeesOverselling == drv_pc = "returned" /\ final_inventory < 0

\* C23: run_flash_sale_simulation returns a result only when the final stock
\* is >= 0 and no customer raised; it raises in every other case, so a caller
\* never finds a negative final_inventory in a returned result.
C23_ReturnsOnlyCleanRuns ==
    /\ drv_pc = "returned" => (final_inventory >= 0 /\ Len(drv_exceptions) = 0)
    /\ drv_pc = "raised" => (final_inventory < 0 \/ Len(drv_exceptions) > 0)
    /\ drv_pc # "collect" => final_inventory = products[product_id]
    /\ ~CallerSeesOverselling

\* an unsafe run has returned a result although an update was lost: the
\* stock is not what the confirmed orders predict
C23_Witness ==
    /\ AllUnsafe
    /\ drv_pc = "returned"
    /\ discrepancy # 0

\* -------------------------------------------------------------------- C24
\* the customers whose reservation raised the overselling condition
Raisers == {c \in Customers : reserved[c] = "raised"}

\* C24: when every customer of an unsafe run has finished and the stock is
\* negative, at least one reservation raised the overselling condition after
\* observing a negative stock, a failed_overselling order is in the log, and
\* the driver, once it has analysed the run, holds a captured exception.
C24_OversellingNeverSilent ==
    (AllUnsafe /\ AllFinished /\ products[product_id] < 0) =>
        /\ \E c \in Raisers : observed[c] < 0 /\ pc[c] = "raised"
        /\ StatusCount("failed_overselling") >= 1
        /\ drv_pc # "collect" => (Len(drv_exceptions) >= 1 /\ drv_pc = "raised")

\* an unsafe run has ended with a negative stock, one raised reservation and
\* one confirmed order
C24_Witness ==
    /\ AllUnsafe /\ AllFinished
    /\ drv_pc = "raised"
    /\ products[product_id] < 0
    /\ Cardinality(Raisers) = 1
    /\ StatusCount("confirmed") >= 1

\* ------------------------------ an unsafe run whose `-=` is one atomic step
\* reserve_inventory_unsafe: `product.inventory_count -= quantity` read and
\* written without another thread in between
UnsafeDecrement(c) ==
    /\ pc[c] = "unsafe_load"
    /\ IF KeyError(product_id)
       THEN /\ reserved' = [reserved EXCEPT ![c] = "keyerror"]
            /\ pc' = [pc EXCEPT ![c] = "raised"]
            /\ UNCHANGED <<products, loaded, stored, wrote>>
       ELSE /\ loaded' = [loaded EXCEPT ![c] = products[product_id]]
            /\ products' = Written(products, product_id,
                                   Decremented(products[product_id], quantity[c]))
            /\ stored' = [stored EXCEPT ![c] =
                              Decremented(products[product_id], quantity[c])]
            /\ wrote' = [wrote EXCEPT ![c] = TRUE]
            /\ pc' = [pc EXCEPT ![c] = "unsafe_detect"]
            /\ reserved' = reserved
    /\ UNCHANGED <<orders, lock, run_vars, quantity, order_len, order_time,
                   current_inventory, observed, lock_order, driver_vars, report_vars>>
    /\ UNCHANGED script_vars

\* run_flash_sale_simulation with use_safe_method=False
InitAtomic ==
    /\ Init
    /\ \A c \in Customers : ~use_safe[c]

NextAtomic ==
    \/ \E c \in Customers : Start(c)
    \/ \E c \in Customers : CreateOrderId(c)
    \/ \E c \in Customers : UnsafeRead(c)
    \/ \E c \in Customers : UnsafeDecrement(c)
    \/ \E c \in Customers : UnsafeDetect(c)
    \/ \E c \in Customers : AppendOrder(c)
    \/ \E c \in Customers : Collect(c)
    \/ Analysis

SpecAtomic == InitAtomic /\ [][NextAtomic]_vars

\* -------------------------------------------------------------------- C25
\* the orders of a log that record an overselling attempt
Oversellings(log) == SelectSeq(log, LAMBDA o : o.status = "failed_overselling")

\* C25: with `-=` atomic, an unsafe run keeps the stock at the initial stock
\* minus the quantities of the reservations that decremented it; once all
\* customers have finished that is the initial stock minus the quantities of
\* the confirmed and of the failed_overselling orders; the driver's
\* discrepancy is <= 0 and non-zero exactly when a reservation raised.
C25_AtomicUnsafeAccounting ==
    /\ products[product_id] =
          InitialStock - SumOver({c \in Customers : wrote[c]}, quantity)
    /\ AllFinished =>
          products[product_id] =
              InitialStock - SumQuantity(Confirmed(orders))
                           - SumQuantity(Oversellings(orders))
    /\ drv_pc # "collect" =>
          /\ discrepancy = 0 - SumQuantity(Oversellings(orders))
          /\ discrepancy <= 0
          /\ discrepancy # 0 <=> Raisers # {}

\* the run has ended with two reservations raised and one confirmed
C25_Witness ==
    /\ drv_pc = "raised"
    /\ Cardinality(Raisers) = 2
    /\ StatusCount("confirmed") = 1
    /\ discrepancy < -1

\* ------------------------- safe and unsafe callers on one InventoryManager
\* create_order calls on one product, some with use_safe_reservation=True
\* and some with False
InitMixed ==
    /\ InitManager
    /\ product_id = "tablet_003"
    /\ use_safe \in [Customers -> BOOLEAN]
    /\ \E c, d \in Customers : use_safe[c] /\ ~use_safe[d]
    /\ user_id = [c \in Customers |-> c]

\* the steps of reserve_inventory_unsafe
UnsafeStep(c) ==
    \/ UnsafeRead(c)
    \/ UnsafeLoad(c)
    \/ UnsafeStore(c)
    \/ UnsafeDetect(c)

NextMixed ==
    \/ \E c \in Customers : Start(c)
    \/ \E c \in Customers : CreateOrderId(c)
    \/ \E c \in Customers : UnsafeStep(c)
    \/ \E c \in Customers : SafeAcquire(c)
    \/ \E c \in Customers : CriticalStep(c)
    \/ \E c \in Customers : AppendOrder(c)

SpecMixed == InitMixed /\ [][NextMixed]_vars

\* -------------------------------------------------------------------- C26
\* customer c is inside reserve_inventory_unsafe
InUnsafeReserve(c) ==
    pc[c] \in {"unsafe_read", "unsafe_load", "unsafe_store", "unsafe_detect"}

\* C26: when safe and unsafe callers share a product, an unsafe caller never
\* holds the lock and takes its steps whoever holds it, and the stock is
\* negative only after an unsafe caller has written it.
C26_UnsafeIgnoresLock ==
    /\ \A c \in Customers : InUnsafeReserve(c) =>
          /\ lock # c
          /\ ENABLED UnsafeStep(c)
    /\ products[product_id] < 0 =>
          \E c \in Customers : ~use_safe[c] /\ wrote[c]

\* the stock is negative, and the negative value was written by a safe
\* caller that held the lock and returned True
C26_Witness ==
    /\ products[product_id] < 0
    /\ \E c, d \in Customers :
          /\ use_safe[c] /\ reserved[c] = "true"
          /\ stored[c] < 0 /\ current_inventory[c] > loaded[c]
          /\ ~use_safe[d] /\ reserved[d] = "true"

\* ============================ concurrency/race_condition_scenario.py
\* the flash-sale scenario is not running
InventoryIdle ==
    /\ InitManager
    /\ product_id = "tablet_003"
    /\ use_safe = [c \in Customers |-> TRUE]
    /\ user_id = [c \in Customers |-> c]

\* variant: the withdrawal goes ahead whatever the balance
Sufficient_Always(cur, amount) == TRUE

\* withdraw: `if current_balance >= amount`
Sufficient(cur, amount) == cur >= amount

\* variant: the withdrawal is taken from the account twice
Withdrawn_Twice(cur, amount) == cur - amount - amount

\* withdraw: the value assigned to bank_account["balance"]
Withdrawn(cur, amount) == cur - amount

\* withdraw: `if bank_account["balance"] < 0`
NegativeBalance(balance) == balance < 0

\* sum(tx["amount"] for tx in transaction_log if tx["action"] == "withdraw")
RECURSIVE TotalWithdrawn(_)
TotalWithdrawn(log) ==
    IF log = <<>> THEN 0
    ELSE (IF Head(log).action = "withdraw" THEN Head(log).amount ELSE 0)
            + TotalWithdrawn(Tail(log))

\* the position of holder h in main's withdrawals list
WithdrawalIndex(h) == CHOOSE i \in 1 .. Len(Withdrawals) : Withdrawals[i] = h

\* main: `for thread in threads: thread.start()`, one thread per iteration
StartThread(h) ==
    /\ bank_main = "start"
    /\ withdraw_pc[h] = "created"
    /\ \A g \in Holders : WithdrawalIndex(g) < WithdrawalIndex(h) => withdraw_pc[g] # "created"
    /\ withdraw_pc' = [withdraw_pc EXCEPT ![h] = "read"]
    /\ bank_main' = IF WithdrawalIndex(h) = Len(Withdrawals) THEN "join" ELSE "start"
    /\ UNCHANGED <<bank_account, transaction_log, current_balance, overlapped>>
    /\ UNCHANGED <<inventory_vars, deadlock_vars, ninth_vars, resource_vars>>

\* withdraw: read the balance and test it
WithdrawRead(h) ==
    /\ withdraw_pc[h] = "read"
    /\ current_balance' = [current_balance EXCEPT ![h] = bank_account.balance]
    /\ withdraw_pc' = [withdraw_pc EXCEPT ![h] =
                          IF Sufficient(bank_account.balance, Amount[h])
                          THEN "write" ELSE "done"]
    /\ overlapped' = (overlapped \/ \E g \in Holders \ {h} :
                                       withdraw_pc[g] \in {"write", "log", "detect"})
    /\ UNCHANGED <<bank_account, transaction_log, bank_main>>
    /\ UNCHANGED <<inventory_vars, deadlock_vars, ninth_vars, resource_vars>>

\* withdraw: after the sleep, bank_account["balance"] = current_balance - amount
WithdrawWrite(h) ==
    /\ withdraw_pc[h] = "write"
    /\ bank_account' = [bank_account EXCEPT
                           !.balance = Withdrawn(current_balance[h], Amount[h])]
    /\ withdraw_pc' = [withdraw_pc EXCEPT ![h] = "log"]
    /\ UNCHANGED <<transaction_log, current_balance, bank_main, overlapped>>
    /\ UNCHANGED <<inventory_vars, deadlock_vars, ninth_vars, resource_vars>>

\* withdraw: transaction_log.append({...})
WithdrawLog(h) ==
    /\ withdraw_pc[h] = "log"
    /\ transaction_log' = Append(transaction_log,
                                 [account_holder |-> h, action |-> "withdraw",
                                  amount |-> Amount[h],
                                  balance_after |-> bank_account.balance])
    /\ withdraw_pc' = [withdraw_pc EXCEPT ![h] = "detect"]
    /\ UNCHANGED <<bank_account, current_balance, bank_main, overlapped>>
    /\ UNCHANGED <<inventory_vars, deadlock_vars, ninth_vars, resource_vars>>

\* withdraw: the test for a negative balance; the thread ends, raising if so
WithdrawDetect(h) ==
    /\ withdraw_pc[h] = "detect"
    /\ withdraw_pc' = [withdraw_pc EXCEPT ![h] =
                          IF NegativeBalance(bank_account.balance)
                          THEN "raised" ELSE "done"]
    /\ UNCHANGED <<bank_account, transaction_log, current_balance, bank_main, overlapped>>
    /\ UNCHANGED <<inventory_vars, deadlock_vars, ninth_vars, resource_vars>>

\* main: after the joins, compare the balance with the logged withdrawals
BankAnalysis ==
    /\ bank_main = "join"
    /\ \A h \in Holders : withdraw_pc[h] \in {"done", "raised"}
    /\ LET total_withdrawn == TotalWithdrawn(transaction_log)
           expected_balance == InitialBalance - total_withdrawn
       IN bank_main' = IF bank_account.balance # expected_balance
                       THEN "corrupt" ELSE "ok"
    /\ UNCHANGED <<bank_account, transaction_log, withdraw_pc, current_balance, overlapped>>
    /\ UNCHANGED <<inventory_vars, deadlock_vars, ninth_vars, resource_vars>>

NextBank ==
    \/ \E h \in Holders : StartThread(h)
    \/ \E h \in Holders : WithdrawRead(h)
    \/ \E h \in Holders : WithdrawWrite(h)
    \/ \E h \in Holders : WithdrawLog(h)
    \/ \E h \in Holders : WithdrawDetect(h)
    \/ BankAnalysis

SpecBank == InventoryIdle /\ [][NextBank]_vars

\* ----------------------------------------------------------- vocabulary
\* every withdraw thread has ended
WithdrawalsOver == \A h \in Holders : withdraw_pc[h] \in {"done", "raised"}

\* no withdraw call is between its read of the balance and its end
NoWithdrawalUnderWay ==
    \A h \in Holders : withdraw_pc[h] \notin {"write", "log", "detect"}

\* -------------------------------------------------------------------- C27
\* C27: in every interleaving of the withdraw threads the balance is never
\* negative: a thread about to write holds a value it found >= its amount,
\* every logged balance_after is >= 0, and no thread ends in the
\* 'RACE CONDITION DETECTED' error.
C27_BalanceNeverNegative ==
    /\ bank_account.balance >= 0
    /\ \A h \in Holders : withdraw_pc[h] = "write" =>
          /\ current_balance[h] >= Amount[h]
          /\ Withdrawn(current_balance[h], Amount[h]) >= 0
    /\ \A i \in 1 .. Len(transaction_log) : transaction_log[i].balance_after >= 0
    /\ \A h \in Holders : withdraw_pc[h] # "raised"

\* all four withdrawals went through: more was withdrawn than the account
\* held, and the balance is still not negative
C27_Witness ==
    /\ WithdrawalsOver
    /\ Len(transaction_log) = Cardinality(Holders)
    /\ TotalWithdrawn(transaction_log) > InitialBalance
    /\ bank_account.balance >= 0
    /\ bank_main = "corrupt"

\* -------------------------------------------------------------------- C28
\* C28: main finds DATA CORRUPTION exactly when the final balance differs
\* from 1000 minus the logged withdrawals, which happens only if withdraw
\* calls overlapped; as long as none has overlapped, the balance between
\* calls equals 1000 minus the logged withdrawals and main ends normally.
C28_LostUpdateNeedsOverlap ==
    /\ bank_main \in {"ok", "corrupt"} =>
          (bank_main = "corrupt" <=>
              bank_account.balance # InitialBalance - TotalWithdrawn(transaction_log))
    /\ bank_main = "corrupt" => overlapped
    /\ (~overlapped /\ NoWithdrawalUnderWay) =>
          /\ bank_account.balance = InitialBalance - TotalWithdrawn(transaction_log)
          /\ bank_main # "corrupt"

\* main has found the corruption: overlapping withdrawals are logged and the
\* balance does not show all of them
C28_Witness ==
    /\ bank_main = "corrupt"
    /\ overlapped
    /\ Len(transaction_log) >= 2
    /\ bank_account.balance > InitialBalance - TotalWithdrawn(transaction_log)

\* ========================= concurrency/threading_deadlock_scenario.py
\* the lock a thread takes in its outer `with`: t1 lock_a, t2 lock_b
FirstLock(t) == IF t = 1 THEN "a" ELSE "b"

\* the lock a thread takes in its inner `with`
SecondLock(t) == IF t = 1 THEN "b" ELSE "a"

\* the holder of a lock of the script
HolderOf(l) == IF l = "a" THEN lock_a ELSE lock_b

\* variant: a lock that does not make the second thread wait
Unlocked_Always(holder) == TRUE

\* `with lock:` is entered only while nobody holds the lock
Unlocked(holder) == holder = NoThread

\* A.start(); B.start()
StartAB ==
    /\ deadlock_main \in {"start_A", "start_B"}
    /\ LET t == IF deadlock_main = "start_A" THEN 1 ELSE 2 IN
          t_pc' = [t_pc EXCEPT ![t] = "acquire_first"]
    /\ deadlock_main' = IF deadlock_main = "start_A" THEN "start_B" ELSE "join_A"
    /\ UNCHANGED <<lock_a, lock_b, lock_events>>
    /\ UNCHANGED <<inventory_vars, bank_vars, ninth_vars, resource_vars>>

\* t1 / t2: enter the outer `with`
AcquireFirst(t) ==
    /\ t_pc[t] = "acquire_first"
    /\ Unlocked(HolderOf(FirstLock(t)))
    /\ lock_a' = IF FirstLock(t) = "a" THEN t ELSE lock_a
    /\ lock_b' = IF FirstLock(t) = "b" THEN t ELSE lock_b
    /\ lock_events' = Append(lock_events, <<t, FirstLock(t)>>)
    /\ t_pc' = [t_pc EXCEPT ![t] = "sleep"]
    /\ UNCHANGED deadlock_main
    /\ UNCHANGED <<inventory_vars, bank_vars, ninth_vars, resource_vars>>

\* t1 / t2: time.sleep(0.01)
Sleep(t) ==
    /\ t_pc[t] = "sleep"
    /\ t_pc' = [t_pc EXCEPT ![t] = "acquire_second"]
    /\ UNCHANGED <<lock_a, lock_b, deadlock_main, lock_events>>
    /\ UNCHANGED <<inventory_vars, bank_vars, ninth_vars, resource_vars>>

\* t1 / t2: enter the inner `with`
AcquireSecond(t) ==
    /\ t_pc[t] = "acquire_second"
    /\ Unlocked(HolderOf(SecondLock(t)))
    /\ lock_a' = IF SecondLock(t) = "a" THEN t ELSE lock_a
    /\ lock_b' = IF SecondLock(t) = "b" THEN t ELSE lock_b
    /\ lock_events' = Append(lock_events, <<t, SecondLock(t)>>)
    /\ t_pc' = [t_pc EXCEPT ![t] = "inner"]
    /\ UNCHANGED deadlock_main
    /\ UNCHANGED <<inventory_vars, bank_vars, ninth_vars, resource_vars>>

\* t1 / t2: `pass`, then the inner `with` releases its lock
ReleaseSecond(t) ==
    /\ t_pc[t] = "inner"
    /\ lock_a' = IF SecondLock(t) = "a" THEN NoThread ELSE lock_a
    /\ lock_b' = IF SecondLock(t) = "b" THEN NoThread ELSE lock_b
    /\ t_pc' = [t_pc EXCEPT ![t] = "outer"]
    /\ UNCHANGED <<deadlock_main, lock_events>>
    /\ UNCHANGED <<inventory_vars, bank_vars, ninth_vars, resource_vars>>

\* t1 / t2: the outer `with` releases its lock and the thread ends
ReleaseFirst(t) ==
    /\ t_pc[t] = "outer"
    /\ lock_a' = IF FirstLock(t) = "a" THEN NoThread ELSE lock_a
    /\ lock_b' = IF FirstLock(t) = "b" THEN NoThread ELSE lock_b
    /\ t_pc' = [t_pc EXCEPT ![t] = "done"]
    /\ UNCHANGED <<deadlock_main, lock_events>>
    /\ UNCHANGED <<inventory_vars, bank_vars, ninth_vars, resource_vars>>

\* A.join(); B.join()
JoinAB ==
    /\ deadlock_main \in {"join_A", "join_B"}
    /\ t_pc[IF deadlock_main = "join_A" THEN 1 ELSE 2] = "done"
    /\ deadlock_main' = IF deadlock_main = "join_A" THEN "join_B" ELSE "exit"
    /\ UNCHANGED <<lock_a, lock_b, t_pc, lock_events>>
    /\ UNCHANGED <<inventory_vars, bank_vars, ninth_vars, resource_vars>>

\* the steps of thread t
ThreadStep(t) ==
    \/ AcquireFirst(t)
    \/ Sleep(t)
    \/ AcquireSecond(t)
    \/ ReleaseSecond(t)
    \/ ReleaseFirst(t)

\* the steps of the module-level code
MainStep == StartAB \/ JoinAB

NextDeadlock ==
    \/ \E t \in Threads : ThreadStep(t)
    \/ MainStep

\* a thread that can run is eventually scheduled
FairnessDeadlock ==
    /\ \A t \in Threads : WF_vars(ThreadStep(t))
    /\ WF_vars(MainStep)

SpecDeadlock == InventoryIdle /\ [][NextDeadlock]_vars /\ FairnessDeadlock

\* ============================== concurrency/enhanced_ninth_scenario.py
\* the holder of a lock of the script
NinthHolderOf(l) == IF l = "a" THEN ninth_lock_a ELSE ninth_lock_b

\* lock.acquire(timeout=...) returns True: the lock is free and is taken
Acquirable(holder) == holder = NoThread

\* variant: an acquisition that never gives up
Expired_Never(holder) == FALSE

\* lock.acquire(timeout=...) returns False: the lock stayed held by another
\* thread until the timeout ran out
Expired(holder) == holder # NoThread

\* thread_states after thread t has taken its first lock:
\* thread_states["t1_acquired_a"] = True / thread_states["t2_acquired_b"] = True
FirstAcquired(states, t) ==
    IF t = 1 THEN [states EXCEPT !.t1_acquired_a = TRUE]
             ELSE [states EXCEPT !.t2_acquired_b = TRUE]

\* thread_states after the except clause: thread_states["deadlock_detected"] = True
Detected(states) == [states EXCEPT !.deadlock_detected = TRUE]

\* main: t1.start(); t2.start()
NinthStart ==
    /\ ninth_main \in {"start_t1", "start_t2"}
    /\ LET t == IF ninth_main = "start_t1" THEN 1 ELSE 2 IN
          ninth_pc' = [ninth_pc EXCEPT ![t] = "acquire_first"]
    /\ ninth_main' = IF ninth_main = "start_t1" THEN "start_t2" ELSE "join_t1"
    /\ UNCHANGED <<ninth_lock_a, ninth_lock_b, thread_states>>
    /\ UNCHANGED <<inventory_vars, bank_vars, deadlock_vars, resource_vars>>

\* thread_1 / thread_2: the first acquire succeeds
NinthAcquireFirst(t) ==
    /\ ninth_pc[t] = "acquire_first"
    /\ Acquirable(NinthHolderOf(FirstLock(t)))
    /\ ninth_lock_a' = IF FirstLock(t) = "a" THEN t ELSE ninth_lock_a
    /\ ninth_lock_b' = IF FirstLock(t) = "b" THEN t ELSE ninth_lock_b
    /\ thread_states' = FirstAcquired(thread_states, t)
    /\ ninth_pc' = [ninth_pc EXCEPT ![t] = "sleep"]
    /\ UNCHANGED ninth_main
    /\ UNCHANGED <<inventory_vars, bank_vars, deadlock_vars, resource_vars>>

\* thread_1 / thread_2: the first acquire times out; TimeoutError, the except
\* clause sets deadlock_detected and re-raises
NinthTimeoutFirst(t) ==
    /\ ninth_pc[t] = "acquire_first"
    /\ Expired(NinthHolderOf(FirstLock(t)))
    /\ thread_states' = Detected(thread_states)
    /\ ninth_pc' = [ninth_pc EXCEPT ![t] = "raised"]
    /\ UNCHANGED <<ninth_lock_a, ninth_lock_b, ninth_main>>
    /\ UNCHANGED <<inventory_vars, bank_vars, deadlock_vars, resource_vars>>

\* thread_1 / thread_2: time.sleep(0.1)
NinthSleep(t) ==
    /\ ninth_pc[t] = "sleep"
    /\ ninth_pc' = [ninth_pc EXCEPT ![t] = "acquire_second"]
    /\ UNCHANGED <<ninth_lock_a, ninth_lock_b, thread_states, ninth_main>>
    /\ UNCHANGED <<inventory_vars, bank_vars, deadlock_vars, resource_vars>>

\* thread_1 / thread_2: the second acquire succeeds
NinthAcquireSecond(t) ==
    /\ ninth_pc[t] = "acquire_second"
    /\ Acquirable(NinthHolderOf(SecondLock(t)))
    /\ ninth_lock_a' = IF SecondLock(t) = "a" THEN t ELSE ninth_lock_a
    /\ ninth_lock_b' = IF SecondLock(t) = "b" THEN t ELSE ninth_lock_b
    /\ ninth_pc' = [ninth_pc EXCEPT ![t] = "release_second"]
    /\ UNCHANGED <<thread_states, ninth_main>>
    /\ UNCHANGED <<inventory_vars, bank_vars, deadlock_vars, resource_vars>>

\* variant: the first lock is released before the TimeoutError leaves the thread
NinthTimeoutSecond_Releasing(t) ==
    /\ ninth_pc[t] = "acquire_second"
    /\ Expired(NinthHolderOf(SecondLock(t)))
    /\ thread_states' = Detected(thread_states)
    /\ ninth_pc' = [ninth_pc EXCEPT ![t] = "raised"]
    /\ ninth_lock_a' = IF FirstLock(t) = "a" THEN NoThread ELSE ninth_lock_a
    /\ ninth_lock_b' = IF FirstLock(t) = "b" THEN NoThread ELSE ninth_lock_b
    /\ UNCHANGED ninth_main
    /\ UNCHANGED <<inventory_vars, bank_vars, deadlock_vars, resource_vars>>

\* thread_1 / thread_2: the second acquire times out; TimeoutError, the
\* except clause sets deadlock_detected and re-raises; the first lock is not
\* released
NinthTimeoutSecond(t) ==
    /\ ninth_pc[t] = "acquire_second"
    /\ Expired(NinthHolderOf(SecondLock(t)))
    /\ thread_states' = Detected(thread_states)
    /\ ninth_pc' = [ninth_pc EXCEPT ![t] = "raised"]
    /\ UNCHANGED <<ninth_lock_a, ninth_lock_b, ninth_main>>
    /\ UNCHANGED <<inventory_vars, bank_vars, deadlock_vars, resource_vars>>

\* thread_1: lock_b.release() / thread_2: lock_a.release()
NinthReleaseSecond(t) ==
    /\ ninth_pc[t] = "release_second"
    /\ ninth_lock_a' = IF SecondLock(t) = "a" THEN NoThread ELSE ninth_lock_a
    /\ ninth_lock_b' = IF SecondLock(t) = "b" THEN NoThread ELSE ninth_lock_b
    /\ ninth_pc' = [ninth_pc EXCEPT ![t] = "release_first"]
    /\ UNCHANGED <<thread_states, ninth_main>>
    /\ UNCHANGED <<inventory_vars, bank_vars, deadlock_vars, resource_vars>>

\* thread_1: lock_a.release() / thread_2: lock_b.release(); the thread ends
NinthReleaseFirst(t) ==
    /\ ninth_pc[t] = "release_first"
    /\ ninth_lock_a' = IF FirstLock(t) = "a" THEN NoThread ELSE ninth_lock_a
    /\ ninth_lock_b' = IF FirstLock(t) = "b" THEN NoThread ELSE ninth_lock_b
    /\ ninth_pc' = [ninth_pc EXCEPT ![t] = "done"]
    /\ UNCHANGED <<thread_states, ninth_main>>
    /\ UNCHANGED <<inventory_vars, bank_vars, deadlock_vars, resource_vars>>

\* thread t has ended, normally or by its re-raised TimeoutError
NinthEnded(t) == ninth_pc[t] \in {"done", "raised"}

\* main: t1.join(timeout=5.0); t2.join(timeout=5.0): the join returns when
\* the thread has ended or when its timeout runs out
NinthJoin ==
    /\ ninth_main \in {"join_t1", "join_t2"}
    /\ ninth_main' = IF ninth_main = "join_t1" THEN "join_t2" ELSE "check"
    /\ UNCHANGED <<ninth_lock_a, ninth_lock_b, ninth_pc, thread_states>>
    /\ UNCHANGED <<inventory_vars, bank_vars, deadlock_vars, resource_vars>>

\* main: raise if a thread is alive, else report thread_states["deadlock_detected"]
NinthCheck ==
    /\ ninth_main = "check"
    /\ ninth_main' = IF \E t \in Threads : ~NinthEnded(t) THEN "raised"
                     ELSE IF thread_states.deadlock_detected THEN "detected"
                     ELSE "not_detected"
    /\ UNCHANGED <<ninth_lock_a, ninth_lock_b, ninth_pc, thread_states>>
    /\ UNCHANGED <<inventory_vars, bank_vars, deadlock_vars, resource_vars>>

\* the steps of thread_1 (t = 1) and thread_2 (t = 2)
NinthThreadStep(t) ==
    \/ NinthAcquireFirst(t)
    \/ NinthTimeoutFirst(t)
    \/ NinthSleep(t)
    \/ NinthAcquireSecond(t)
    \/ NinthTimeoutSecond(t)
    \/ NinthReleaseSecond(t)
    \/ NinthReleaseFirst(t)

\* the steps of main
NinthMainStep == NinthStart \/ NinthJoin \/ NinthCheck

NextNinth ==
    \/ \E t \in Threads : NinthThreadStep(t)
    \/ NinthMainStep

\* a thread that can run is eventually scheduled
FairnessNinth ==
    /\ \A t \in Threads : WF_vars(NinthThreadStep(t))
    /\ WF_vars(NinthMainStep)

SpecNinth == InventoryIdle /\ [][NextNinth]_vars /\ FairnessNinth

\* ------------------------------------------------ the two lock-order scripts
\* threading_deadlock_scenario.py and enhanced_ninth_scenario.py, each run as
\* a process of its own
NextLockOrder == NextDeadlock \/ NextNinth

SpecLockOrder ==
    InventoryIdle /\ [][NextLockOrder]_vars /\ FairnessDeadlock /\ FairnessNinth

\* -------------------------------------------------------------------- C29
\* t1 holds lock_a and waits for lock_b while t2 holds lock_b and waits for lock_a
CircularWait ==
    /\ t_pc[1] = "acquire_second" /\ lock_a = 1
    /\ t_pc[2] = "acquire_second" /\ lock_b = 2

\* one thread took both its locks before the other took its first
TookBothFirst ==
    /\ Len(lock_events) >= 2
    /\ lock_events[1][1] = lock_events[2][1]

\* C29: once t1 holds lock_a waiting for lock_b and t2 holds lock_b waiting
\* for lock_a, no thread of the script and no join can take a step and the
\* state lasts forever; the script is stuck in no other way; and when one
\* thread has taken both locks before the other took its first, both joins
\* eventually return.
C29_LockOrderDeadlock ==
    /\ [](CircularWait => ~ENABLED NextDeadlock)
    /\ [](CircularWait => [](CircularWait /\ deadlock_main = "join_A"))
    /\ []((~ENABLED NextDeadlock /\ deadlock_main # "exit") => CircularWait)
    /\ [](deadlock_main = "exit" => TookBothFirst)
    /\ TookBothFirst ~> (deadlock_main = "exit")

\* the circular wait: both threads hold their first lock, A.join() is waiting
C29_Witness ==
    /\ CircularWait
    /\ deadlock_main = "join_A"
    /\ Len(lock_events) = 2

\* -------------------------------------------------------------------- C30
\* the threads of the enhanced scenario that ended by raising TimeoutError
NinthRaised == {t \in Threads : ninth_pc[t] = "raised"}

\* C30: in the enhanced scenario, under fair scheduling, both threads
\* eventually end, by releasing both locks or by raising TimeoutError, and
\* main reaches its end; deadlock_detected is True exactly when a thread has
\* raised.
C30_TimeoutsTerminate ==
    /\ <>(\A t \in Threads : NinthEnded(t))
    /\ <>(ninth_main \in {"raised", "detected", "not_detected"})
    /\ [](thread_states.deadlock_detected <=> NinthRaised # {})
    /\ [](ninth_main = "detected" => NinthRaised # {})
    /\ [](ninth_main = "not_detected" => \A t \in Threads : ninth_pc[t] = "done")

\* the circular wait was broken by the timeouts: both threads raised, each
\* still holding its first lock, and main reports the deadlock
C30_Witness ==
    /\ NinthRaised = Threads
    /\ ninth_lock_a = 1 /\ ninth_lock_b = 2
    /\ thread_states.t1_acquired_a /\ thread_states.t2_acquired_b
    /\ thread_states.deadlock_detected
    /\ ninth_main = "detected"

\* -------------------------------------------------------------------- C31
\* thread t took its first lock: thread_states["t1_acquired_a"] / ["t2_acquired_b"]
TookFirst(t) ==
    IF t = 1 THEN thread_states.t1_acquired_a ELSE thread_states.t2_acquired_b

\* thread t raised TimeoutError at its second acquire
TimedOutOnSecond(t) == ninth_pc[t] = "raised" /\ TookFirst(t)

\* C31: a thread of the enhanced scenario that timed out on its second lock
\* holds its first lock from then on, also after both threads have ended;
\* whenever both have ended, a lock is held exactly when the thread that
\* takes it first timed out on its second lock.
C31_TimeoutLeaksFirstLock ==
    /\ \A t \in Threads :
          TimedOutOnSecond(t) => NinthHolderOf(FirstLock(t)) = t
    /\ (\A t \in Threads : NinthEnded(t)) =>
          \A t \in Threads :
              NinthHolderOf(FirstLock(t)) # NoThread <=> TimedOutOnSecond(t)

\* thread_1 has raised at lock_b and still holds lock_a; thread_2, which
\* holds lock_b, has not given up on lock_a yet
C31_Witness ==
    /\ TimedOutOnSecond(1)
    /\ ninth_lock_a = 1
    /\ ninth_pc[2] = "acquire_second"
    /\ ninth_lock_b = 2


\* ---------------------------------------------------------------------
\* threading_condition_variable_scenario.py: a consumer waits on a
\* condition variable that the producer notifies without holding its lock
\* ---------------------------------------------------------------------

\* the lock of a condition variable held by `owner` is owned by thread t:
\* notify() raises RuntimeError unless the caller owns it
Owns_Always(owner, t) == TRUE

Owns(owner, t) == owner = t

\* line 17: threading.Thread(target=consumer).start()
StartConsumer ==
    /\ cv_main = "start_consumer"
    /\ cv_main' = "start_producer"
    /\ cv_pc' = [cv_pc EXCEPT ![Consumer] = "enter"]
    /\ UNCHANGED <<cv_owner, data_ready, cv_waiting>>
    /\ UNCHANGED <<inventory_vars, bank_vars, deadlock_vars, ninth_vars, tenth_vars, pool_vars>>

\* lines 18-19: time.sleep(0.05); threading.Thread(target=producer).start()
StartProducer ==
    /\ cv_main = "start_producer"
    /\ cv_main' = "exit"
    /\ cv_pc' = [cv_pc EXCEPT ![Producer] = "set"]
    /\ UNCHANGED <<cv_owner, data_ready, cv_waiting>>
    /\ UNCHANGED <<inventory_vars, bank_vars, deadlock_vars, ninth_vars, tenth_vars, pool_vars>>

\* line 12: with cv: takes the lock of cv; a consumer woken by notify()
\* retakes the lock here before it tests data_ready again
ConsumerEnter ==
    /\ cv_pc[Consumer] = "enter"
    /\ cv_owner = NoThread
    /\ cv_owner' = Consumer
    /\ cv_pc' = [cv_pc EXCEPT ![Consumer] = "check"]
    /\ UNCHANGED <<data_ready, cv_waiting, cv_main>>
    /\ UNCHANGED <<inventory_vars, bank_vars, deadlock_vars, ninth_vars, tenth_vars, pool_vars>>

\* line 13: while not data_ready; leaving the loop leaves the with block
ConsumerCheck ==
    /\ cv_pc[Consumer] = "check"
    /\ IF data_ready
       THEN /\ cv_owner' = NoThread
            /\ cv_pc' = [cv_pc EXCEPT ![Consumer] = "done"]
       ELSE /\ cv_pc' = [cv_pc EXCEPT ![Consumer] = "wait"]
            /\ UNCHANGED cv_owner
    /\ UNCHANGED <<data_ready, cv_waiting, cv_main>>
    /\ UNCHANGED <<inventory_vars, bank_vars, deadlock_vars, ninth_vars, tenth_vars, pool_vars>>

\* line 14: cv.wait() releases the lock and blocks until a notify()
ConsumerWait ==
    /\ cv_pc[Consumer] = "wait"
    /\ cv_owner' = NoThread
    /\ cv_waiting' = cv_waiting \cup {Consumer}
    /\ cv_pc' = [cv_pc EXCEPT ![Consumer] = "waiting"]
    /\ UNCHANGED <<data_ready, cv_main>>
    /\ UNCHANGED <<inventory_vars, bank_vars, deadlock_vars, ninth_vars, tenth_vars, pool_vars>>

\* line 8: data_ready = True
ProducerSet ==
    /\ cv_pc[Producer] = "set"
    /\ data_ready' = TRUE
    /\ cv_pc' = [cv_pc EXCEPT ![Producer] = "notify"]
    /\ UNCHANGED <<cv_owner, cv_waiting, cv_main>>
    /\ UNCHANGED <<inventory_vars, bank_vars, deadlock_vars, ninth_vars, tenth_vars, pool_vars>>

\* line 9: cv.notify() wakes a waiting thread if the caller owns the lock
\* and raises RuntimeError if it does not
ProducerNotify ==
    /\ cv_pc[Producer] = "notify"
    /\ IF Owns(cv_owner, Producer)
       THEN /\ cv_waiting' = {}
            /\ cv_pc' = [t \in Threads |->
                            IF t = Producer THEN "done"
                            ELSE IF t \in cv_waiting THEN "enter"
                            ELSE cv_pc[t]]
       ELSE /\ cv_pc' = [cv_pc EXCEPT ![Producer] = "raised"]
            /\ UNCHANGED cv_waiting
    /\ UNCHANGED <<cv_owner, data_ready, cv_main>>
    /\ UNCHANGED <<inventory_vars, bank_vars, deadlock_vars, ninth_vars, tenth_vars, pool_vars>>

\* the steps of the consumer thread
ConsumerStep == ConsumerEnter \/ ConsumerCheck \/ ConsumerWait

\* the steps of the producer thread
ProducerStep == ProducerSet \/ ProducerNotify

\* the module-level code
ConditionMainStep == StartConsumer \/ StartProducer

NextCondition == ConsumerStep \/ ProducerStep \/ ConditionMainStep

\* a thread that can run is eventually scheduled
FairnessCondition ==
    /\ WF_vars(ConsumerStep)
    /\ WF_vars(ProducerStep)
    /\ WF_vars(ConditionMainStep)


\* ---------------------------------------------------------------------
\* enhanced_tenth_scenario.py: the same misuse, with a consumer that
\* waits with a timeout and a main that joins and reports
\* ---------------------------------------------------------------------

\* the number of timeouts after which the consumer gives up (line 64)
TimeoutLimit == 3

\* line 64: if timeout_count >= 3, with count the incremented timeout_count
GivesUp(count) == count >= TimeoutLimit

\* line 106: consumer_thread.start()
TenthStartConsumer ==
    /\ tenth_main = "start_consumer"
    /\ tenth_main' = "start_producer"
    /\ tenth_pc' = [tenth_pc EXCEPT ![Consumer] = "enter"]
    /\ UNCHANGED <<tenth_owner, tenth_data_ready, tenth_waiting, timeout_count,
                   producer_error, consumer_error>>
    /\ UNCHANGED <<inventory_vars, bank_vars, deadlock_vars, ninth_vars, cv_vars, pool_vars>>

\* lines 107-110: time.sleep(0.05); producer_thread.start()
TenthStartProducer ==
    /\ tenth_main = "start_producer"
    /\ tenth_main' = "join_producer"
    /\ tenth_pc' = [tenth_pc EXCEPT ![Producer] = "set"]
    /\ UNCHANGED <<tenth_owner, tenth_data_ready, tenth_waiting, timeout_count,
                   producer_error, consumer_error>>
    /\ UNCHANGED <<inventory_vars, bank_vars, deadlock_vars, ninth_vars, cv_vars, pool_vars>>

\* lines 113-114: join(timeout=5.0) returns when the thread has ended or
\* when the timeout has elapsed
TenthJoin ==
    /\ tenth_main \in {"join_producer", "join_consumer"}
    /\ tenth_main' = IF tenth_main = "join_producer" THEN "join_consumer"
                     ELSE "check"
    /\ UNCHANGED <<tenth_owner, tenth_data_ready, tenth_waiting, tenth_pc,
                   timeout_count, producer_error, consumer_error>>
    /\ UNCHANGED <<inventory_vars, bank_vars, deadlock_vars, ninth_vars, cv_vars, pool_vars>>

\* lines 117-126: main raises for producer_error, else for consumer_error
TenthCheck ==
    /\ tenth_main = "check"
    /\ tenth_main' = IF producer_error THEN "raised_producer"
                     ELSE IF consumer_error THEN "raised_consumer"
                     ELSE "no_exception"
    /\ UNCHANGED <<tenth_owner, tenth_data_ready, tenth_waiting, tenth_pc,
                   timeout_count, producer_error, consumer_error>>
    /\ UNCHANGED <<inventory_vars, bank_vars, deadlock_vars, ninth_vars, cv_vars, pool_vars>>

\* lines 27-30: time.sleep(0.1); data_ready = True
TenthProducerSet ==
    /\ tenth_pc[Producer] = "set"
    /\ tenth_data_ready' = TRUE
    /\ tenth_pc' = [tenth_pc EXCEPT ![Producer] = "notify"]
    /\ UNCHANGED <<tenth_owner, tenth_waiting, timeout_count, producer_error,
                   consumer_error, tenth_main>>
    /\ UNCHANGED <<inventory_vars, bank_vars, deadlock_vars, ninth_vars, cv_vars, pool_vars>>

\* lines 33-44: cv.notify() wakes a waiting thread if the caller owns the
\* lock; if not it raises RuntimeError, which the handler stores in
\* producer_error and raises again
TenthProducerNotify ==
    /\ tenth_pc[Producer] = "notify"
    /\ IF Owns(tenth_owner, Producer)
       THEN /\ tenth_waiting' = {}
            /\ tenth_pc' = [t \in Threads |->
                               IF t = Producer THEN "done"
                               ELSE IF t \in tenth_waiting THEN "notified"
                               ELSE tenth_pc[t]]
            /\ UNCHANGED producer_error
       ELSE /\ tenth_pc' = [tenth_pc EXCEPT ![Producer] = "raised"]
            /\ producer_error' = TRUE
            /\ UNCHANGED tenth_waiting
    /\ UNCHANGED <<tenth_owner, tenth_data_ready, timeout_count, consumer_error,
                   tenth_main>>
    /\ UNCHANGED <<inventory_vars, bank_vars, deadlock_vars, ninth_vars, cv_vars, pool_vars>>

\* lines 53-54: with cv: takes the lock of cv; timeout_count = 0
TenthConsumerEnter ==
    /\ tenth_pc[Consumer] = "enter"
    /\ tenth_owner = NoThread
    /\ tenth_owner' = Consumer
    /\ timeout_count' = 0
    /\ tenth_pc' = [tenth_pc EXCEPT ![Consumer] = "check"]
    /\ UNCHANGED <<tenth_data_ready, tenth_waiting, producer_error,
                   consumer_error, tenth_main>>
    /\ UNCHANGED <<inventory_vars, bank_vars, deadlock_vars, ninth_vars, cv_vars, pool_vars>>

\* line 55: while not data_ready; leaving the loop leaves the with block
TenthConsumerCheck ==
    /\ tenth_pc[Consumer] = "check"
    /\ IF tenth_data_ready
       THEN /\ tenth_owner' = NoThread
            /\ tenth_pc' = [tenth_pc EXCEPT ![Consumer] = "after_loop"]
       ELSE /\ tenth_pc' = [tenth_pc EXCEPT ![Consumer] = "wait"]
            /\ UNCHANGED tenth_owner
    /\ UNCHANGED <<tenth_data_ready, tenth_waiting, timeout_count,
                   producer_error, consumer_error, tenth_main>>
    /\ UNCHANGED <<inventory_vars, bank_vars, deadlock_vars, ninth_vars, cv_vars, pool_vars>>

\* line 59: cv.wait(timeout=2.0) releases the lock and blocks
TenthConsumerWait ==
    /\ tenth_pc[Consumer] = "wait"
    /\ tenth_owner' = NoThread
    /\ tenth_waiting' = tenth_waiting \cup {Consumer}
    /\ tenth_pc' = [tenth_pc EXCEPT ![Consumer] = "waiting"]
    /\ UNCHANGED <<tenth_data_ready, timeout_count, producer_error,
                   consumer_error, tenth_main>>
    /\ UNCHANGED <<inventory_vars, bank_vars, deadlock_vars, ninth_vars, cv_vars, pool_vars>>

\* line 59: the 2.0 seconds of cv.wait elapse without a notification
TenthWaitTimeout ==
    /\ tenth_pc[Consumer] = "waiting"
    /\ Consumer \in tenth_waiting
    /\ tenth_waiting' = tenth_waiting \ {Consumer}
    /\ tenth_pc' = [tenth_pc EXCEPT ![Consumer] = "timed_out"]
    /\ UNCHANGED <<tenth_owner, tenth_data_ready, timeout_count,
                   producer_error, consumer_error, tenth_main>>
    /\ UNCHANGED <<inventory_vars, bank_vars, deadlock_vars, ninth_vars, cv_vars, pool_vars>>

\* lines 59-65 and 72-77: cv.wait retakes the lock and returns True after
\* a notification (break) and False after a timeout: timeout_count += 1,
\* and at 3 the consumer raises TimeoutError, which leaves the with block
\* and is stored in consumer_error; otherwise the loop tests data_ready again
TenthWaitReturn ==
    /\ tenth_pc[Consumer] \in {"timed_out", "notified"}
    /\ tenth_owner = NoThread
    /\ IF tenth_pc[Consumer] = "notified"
       THEN /\ tenth_pc' = [tenth_pc EXCEPT ![Consumer] = "after_loop"]
            /\ UNCHANGED <<tenth_owner, timeout_count, consumer_error>>
       ELSE /\ timeout_count' = timeout_count + 1
            /\ IF GivesUp(timeout_count + 1)
               THEN /\ tenth_pc' = [tenth_pc EXCEPT ![Consumer] = "raised"]
                    /\ consumer_error' = TRUE
                    /\ UNCHANGED tenth_owner
               ELSE /\ tenth_pc' = [tenth_pc EXCEPT ![Consumer] = "check"]
                    /\ tenth_owner' = Consumer
                    /\ UNCHANGED consumer_error
    /\ UNCHANGED <<tenth_data_ready, tenth_waiting, producer_error, tenth_main>>
    /\ UNCHANGED <<inventory_vars, bank_vars, deadlock_vars, ninth_vars, cv_vars, pool_vars>>

\* lines 67-70: if data_ready: process the data
TenthConsumerFinish ==
    /\ tenth_pc[Consumer] = "after_loop"
    /\ tenth_pc' = [tenth_pc EXCEPT ![Consumer] = "done"]
    /\ UNCHANGED <<tenth_owner, tenth_data_ready, tenth_waiting, timeout_count,
                   producer_error, consumer_error, tenth_main>>
    /\ UNCHANGED <<inventory_vars, bank_vars, deadlock_vars, ninth_vars, cv_vars, pool_vars>>

\* the steps of the consumer thread
TenthConsumerStep ==
    \/ TenthConsumerEnter
    \/ TenthConsumerCheck
    \/ TenthConsumerWait
    \/ TenthWaitTimeout
    \/ TenthWaitReturn
    \/ TenthConsumerFinish

\* the steps of the producer thread
TenthProducerStep == TenthProducerSet \/ TenthProducerNotify

\* the steps of main
TenthMainStep ==
    TenthStartConsumer \/ TenthStartProducer \/ TenthJoin \/ TenthCheck

NextTenth == TenthConsumerStep \/ TenthProducerStep \/ TenthMainStep

\* a thread that can run is eventually scheduled, and a timeout that is
\* running elapses
FairnessTenth ==
    /\ WF_vars(TenthConsumerStep)
    /\ WF_vars(TenthProducerStep)
    /\ WF_vars(TenthMainStep)

\* enhanced_tenth_scenario.py alone
SpecTenth == InventoryIdle /\ [][NextTenth]_vars /\ FairnessTenth

\* both condition-variable scripts, as separate processes
NextConditions == NextCondition \/ NextTenth

SpecConditions ==
    InventoryIdle /\ [][NextConditions]_vars /\ FairnessCondition /\ FairnessTenth


\* the producer of a script has failed: its cv.notify() raised RuntimeError
NotifyFailed(position) == position[Producer] = "raised"

\* C32: in both condition-variable scripts the producer calls cv.notify()
\* without owning the lock of cv, so it never completes the call: a
\* producer that has been started sets data_ready to True and then ends
\* with RuntimeError (stored in producer_error by the enhanced script),
\* and no waiting thread is woken by it; in the basic script a consumer
\* that has begun cv.wait() stays in it forever.
C32_NotifyAlwaysFails ==
    /\ [](cv_pc[Producer] # "done" /\ tenth_pc[Producer] # "done")
    /\ [](cv_pc[Producer] = "notify" => ~Owns(cv_owner, Producer))
    /\ [](tenth_pc[Producer] = "notify" => ~Owns(tenth_owner, Producer))
    /\ [](NotifyFailed(cv_pc) => data_ready)
    /\ [](NotifyFailed(tenth_pc) => tenth_data_ready /\ producer_error)
    /\ [](producer_error => NotifyFailed(tenth_pc))
    /\ (cv_pc[Producer] = "set") ~> NotifyFailed(cv_pc)
    /\ (tenth_pc[Producer] = "set") ~> NotifyFailed(tenth_pc)
    /\ [](tenth_pc[Consumer] # "notified")
    /\ [](cv_pc[Consumer] = "waiting" =>
            [](cv_pc[Consumer] = "waiting" /\ Consumer \in cv_waiting))

\* the basic consumer waits although data_ready is True and the producer
\* has failed, and the enhanced producer has failed as well
C32_Witness ==
    /\ cv_pc[Consumer] = "waiting"
    /\ data_ready
    /\ NotifyFailed(cv_pc)
    /\ cv_main = "exit"
    /\ NotifyFailed(tenth_pc)
    /\ producer_error


\* the consumer of enhanced_tenth_scenario.py has returned or raised
ConsumerEnded == tenth_pc[Consumer] \in {"done", "raised"}

\* this step is the consumer raising TimeoutError
ConsumerRaises ==
    tenth_pc[Consumer] # "raised" /\ tenth_pc'[Consumer] = "raised"

\* this step is the consumer leaving its wait loop normally
ConsumerLeavesLoop ==
    tenth_pc[Consumer] # "after_loop" /\ tenth_pc'[Consumer] = "after_loop"

\* the consumer always ends, and it leaves its loop only with data_ready
\* True and never by a notification
ConsumerTerminates ==
    /\ <>ConsumerEnded
    /\ [][ConsumerLeavesLoop => tenth_data_ready /\ tenth_pc[Consumer] = "check"]_vars
    /\ [][ConsumerRaises => timeout_count' = TimeoutLimit]_vars

\* C33: the enhanced consumer always terminates; it leaves its wait loop
\* either because data_ready is True when tested again after a timeout, or
\* by raising TimeoutError after 3 timeouts with data_ready still False, so
\* that once the producer has set data_ready the consumer ends without
\* error.
C33_ConsumerFailsOnlyWithoutData ==
    /\ ConsumerTerminates
    /\ [][ConsumerRaises => ~tenth_data_ready]_vars

\* the consumer has raised TimeoutError after the producer set data_ready
\* during the third wait
TimeoutDespiteData ==
    /\ tenth_pc[Consumer] = "raised"
    /\ consumer_error
    /\ timeout_count = TimeoutLimit
    /\ tenth_data_ready
    /\ tenth_pc[Producer] = "raised"


\* ---------------------------------------------------------------------
\* database_pool_exhaustion_scenario.py: a pool of at most
\* MAX_CONNECTIONS connections guarded by pool_lock, in the version of the
\* file ("raise") and in the version with retries of _base.py ("retry")
\* ---------------------------------------------------------------------

\* line 26: if active_connections >= MAX_CONNECTIONS
\* (_base.py line 31: if active_connections < MAX_CONNECTIONS, negated)
Full_Above(active) == active > MAX_CONNECTIONS

Full(active) == active >= MAX_CONNECTIONS

\* line 41: if conn in connection_pool
InPool(conn, pool) == \E i \in 1..Len(pool) : pool[i] = conn

\* line 42: connection_pool.remove(conn) removes the first element equal
\* to conn
RECURSIVE Remove(_, _)
Remove(conn, pool) ==
    IF pool = <<>> THEN <<>>
    ELSE IF Head(pool) = conn THEN Tail(pool)
    ELSE <<Head(pool)>> \o Remove(conn, Tail(pool))

\* the module is loaded in one of its two versions
PoolLoad ==
    /\ pool_variant = "none"
    /\ \E v \in {"raise", "retry"} : pool_variant' = v
    /\ UNCHANGED <<connection_pool, pool_lock, active_connections, worker_pc,
                   worker_conn, obtained, next_conn>>
    /\ UNCHANGED <<inventory_vars, bank_vars, deadlock_vars, ninth_vars,
                   cv_vars, tenth_vars>>

\* line 53: a worker calls get_connection()
CallGet(w) ==
    /\ pool_variant # "none"
    /\ worker_pc[w] = "idle"
    /\ next_conn < MaxOpened
    /\ worker_pc' = [worker_pc EXCEPT ![w] = "get_lock"]
    /\ UNCHANGED <<pool_variant, connection_pool, pool_lock,
                   active_connections, worker_conn, obtained, next_conn>>
    /\ UNCHANGED <<inventory_vars, bank_vars, deadlock_vars, ninth_vars,
                   cv_vars, tenth_vars>>

\* line 25 (_base.py line 30): with pool_lock
GetLock(w) ==
    /\ worker_pc[w] = "get_lock"
    /\ pool_lock = NoThread
    /\ pool_lock' = w
    /\ worker_pc' = [worker_pc EXCEPT ![w] = "get_test"]
    /\ UNCHANGED <<pool_variant, connection_pool, active_connections,
                   worker_conn, obtained, next_conn>>
    /\ UNCHANGED <<inventory_vars, bank_vars, deadlock_vars, ninth_vars,
                   cv_vars, tenth_vars>>

\* lines 26-28: on a full pool get_connection raises RuntimeError
\* "Connection pool exhausted", which leaves the with block;
\* _base.py lines 30-31 and 37-40: on a full pool the retry version leaves
\* the with block and sleeps
GetTest(w) ==
    /\ worker_pc[w] = "get_test"
    /\ IF Full(active_connections)
       THEN /\ pool_lock' = NoThread
            /\ IF pool_variant = "raise"
               THEN /\ worker_pc' = [worker_pc EXCEPT ![w] = "idle"]
               ELSE /\ worker_pc' = [worker_pc EXCEPT ![w] = "get_retry"]
       ELSE /\ worker_pc' = [worker_pc EXCEPT ![w] = "get_increment"]
            /\ UNCHANGED pool_lock
    /\ UNCHANGED <<pool_variant, connection_pool, active_connections,
                   worker_conn, obtained, next_conn>>
    /\ UNCHANGED <<inventory_vars, bank_vars, deadlock_vars, ninth_vars,
                   cv_vars, tenth_vars>>

\* _base.py lines 29 and 43: after the sleep the loop tries again while
\* the timeout has not elapsed, and raises RuntimeError "Connection pool
\* exhausted" when it has
GetRetry(w) ==
    /\ worker_pc[w] = "get_retry"
    /\ \E elapsed \in BOOLEAN :
          IF elapsed
          THEN /\ worker_pc' = [worker_pc EXCEPT ![w] = "idle"]
          ELSE /\ worker_pc' = [worker_pc EXCEPT ![w] = "get_lock"]
    /\ UNCHANGED <<pool_variant, connection_pool, pool_lock,
                   active_connections, worker_conn, obtained, next_conn>>
    /\ UNCHANGED <<inventory_vars, bank_vars, deadlock_vars, ninth_vars,
                   cv_vars, tenth_vars>>

\* line 30 (_base.py line 32): active_connections += 1
GetIncrement(w) ==
    /\ worker_pc[w] = "get_increment"
    /\ active_connections' = active_connections + 1
    /\ worker_pc' = [worker_pc EXCEPT ![w] = "get_append"]
    /\ UNCHANGED <<pool_variant, connection_pool, pool_lock, worker_conn,
                   obtained, next_conn>>
    /\ UNCHANGED <<inventory_vars, bank_vars, deadlock_vars, ninth_vars,
                   cv_vars, tenth_vars>>

\* lines 31-34 (_base.py lines 33-35): a new connection is opened,
\* appended to connection_pool and returned, which leaves the with block
GetAppend(w) ==
    /\ worker_pc[w] = "get_append"
    /\ next_conn' = next_conn + 1
    /\ connection_pool' = Append(connection_pool, next_conn + 1)
    /\ obtained' = [obtained EXCEPT ![w] = @ \cup {next_conn + 1}]
    /\ pool_lock' = NoThread
    /\ worker_pc' = [worker_pc EXCEPT ![w] = "idle"]
    /\ UNCHANGED <<pool_variant, active_connections, worker_conn>>
    /\ UNCHANGED <<inventory_vars, bank_vars, deadlock_vars, ninth_vars,
                   cv_vars, tenth_vars>>

\* lines 76-77: a worker calls release_connection(conn) with a connection
\* it has a reference to, released before or not
CallRelease(w, conn) ==
    /\ worker_pc[w] = "idle"
    /\ conn \in obtained[w]
    /\ worker_conn' = [worker_conn EXCEPT ![w] = conn]
    /\ worker_pc' = [worker_pc EXCEPT ![w] = "release_lock"]
    /\ UNCHANGED <<pool_variant, connection_pool, pool_lock,
                   active_connections, obtained, next_conn>>
    /\ UNCHANGED <<inventory_vars, bank_vars, deadlock_vars, ninth_vars,
                   cv_vars, tenth_vars>>

\* line 40: with pool_lock
ReleaseLock(w) ==
    /\ worker_pc[w] = "release_lock"
    /\ pool_lock = NoThread
    /\ pool_lock' = w
    /\ worker_pc' = [worker_pc EXCEPT ![w] = "release_test"]
    /\ UNCHANGED <<pool_variant, connection_pool, active_connections,
                   worker_conn, obtained, next_conn>>
    /\ UNCHANGED <<inventory_vars, bank_vars, deadlock_vars, ninth_vars,
                   cv_vars, tenth_vars>>

\* lines 41-43: if conn in connection_pool: connection_pool.remove(conn);
\* conn.close(); if it is not, the call returns
ReleaseTest(w) ==
    /\ worker_pc[w] = "release_test"
    /\ IF InPool(worker_conn[w], connection_pool)
       THEN /\ connection_pool' = Remove(worker_conn[w], connection_pool)
            /\ worker_pc' = [worker_pc EXCEPT ![w] = "release_decrement"]
            /\ UNCHANGED <<pool_lock, worker_conn>>
       ELSE /\ pool_lock' = NoThread
            /\ worker_pc' = [worker_pc EXCEPT ![w] = "idle"]
            /\ worker_conn' = [worker_conn EXCEPT ![w] = 0]
            /\ UNCHANGED connection_pool
    /\ UNCHANGED <<pool_variant, active_connections, obtained, next_conn>>
    /\ UNCHANGED <<inventory_vars, bank_vars, deadlock_vars, ninth_vars,
                   cv_vars, tenth_vars>>

\* lines 44-45: active_connections -= 1, and the with block is left
ReleaseDecrement(w) ==
    /\ worker_pc[w] = "release_decrement"
    /\ active_connections' = active_connections - 1
    /\ pool_lock' = NoThread
    /\ worker_pc' = [worker_pc EXCEPT ![w] = "idle"]
    /\ worker_conn' = [worker_conn EXCEPT ![w] = 0]
    /\ UNCHANGED <<pool_variant, connection_pool, obtained, next_conn>>
    /\ UNCHANGED <<inventory_vars, bank_vars, deadlock_vars, ninth_vars,
                   cv_vars, tenth_vars>>

\* the steps of a worker
WorkerStep(w) ==
    \/ CallGet(w)
    \/ GetLock(w)
    \/ GetTest(w)
    \/ GetRetry(w)
    \/ GetIncrement(w)
    \/ GetAppend(w)
    \/ \E conn \in 1..(MaxOpened + NumWorkers) : CallRelease(w, conn)
    \/ ReleaseLock(w)
    \/ ReleaseTest(w)
    \/ ReleaseDecrement(w)

NextPool ==
    \/ PoolLoad
    \/ \E w \in Workers : WorkerStep(w)

SpecPool == InventoryIdle /\ [][NextPool]_vars


\* worker w leaves position `from` in this step
Leaves(w, from) == worker_pc[w] = from /\ worker_pc'[w] # from

\* no get_connection or release_connection call is inside its with block
PoolQuiet == pool_lock = NoThread

\* the counter and the pool agree and respect the bound
PoolBound ==
    /\ 0 <= active_connections
    /\ active_connections <= MAX_CONNECTIONS
    /\ Len(connection_pool) <= MAX_CONNECTIONS
    /\ PoolQuiet => active_connections = Len(connection_pool)

\* a get_connection that tests a full pool ends its attempt without a
\* connection (by RuntimeError in the version of the file), and a
\* get_connection that raises leaves the counter and the pool unchanged
FullPoolRefuses ==
    \A w \in Workers :
        /\ Leaves(w, "get_test") /\ Len(connection_pool) = MAX_CONNECTIONS =>
              /\ worker_pc'[w] = IF pool_variant = "raise" THEN "idle"
                                 ELSE "get_retry"
              /\ UNCHANGED <<active_connections, connection_pool>>
        /\ Leaves(w, "get_test") /\ Len(connection_pool) < MAX_CONNECTIONS =>
              worker_pc'[w] = "get_increment"
        /\ Leaves(w, "get_retry") =>
              UNCHANGED <<active_connections, connection_pool>>

\* a release_connection of a connection that is not in the pool returns
\* without changing the counter or the pool, and one of a connection that
\* is in the pool removes it
AbsentReleaseIgnored ==
    \A w \in Workers :
        Leaves(w, "release_test") =>
            IF InPool(worker_conn[w], connection_pool)
            THEN /\ worker_pc'[w] = "release_decrement"
                 /\ ~InPool(worker_conn[w], connection_pool')
                 /\ Len(connection_pool') = Len(connection_pool) - 1
            ELSE /\ worker_pc'[w] = "idle"
                 /\ UNCHANGED <<active_connections, connection_pool>>

====
